---- MODULE Spec2Model ----
(***************************************************************************)
(* A model of the refresh / resolve / cache / broadcast pipeline of        *)
(* top100tokens:                                                           *)
(*   - the webhook broadcaster    (app/webhooks/handlers.py, app/utils)    *)
(*   - the sliding-window limiter (EnhancedRateLimiter, data_parser.py)    *)
(*   - the token cache and the address cascade (DataParser)                *)
(*   - the refresh scheduler      (update_token_data, lifespan, main.py)   *)
(* Each component has its own specification over the shared variables.     *)
(***************************************************************************)
EXTENDS Integers, Sequences, FiniteSets, TLC

VARIABLES
    \* ---- WebhookManager (handlers.py) ----
    registered_webhooks,   \* self.registered_webhooks : set of urls
    last_sent_data,        \* self.last_sent_data : {} or [timestamp, payload]
    bpc,                   \* position of the broadcast_update call
    targets,               \* the urls the gather() of this broadcast was built over
    payload_dict,          \* the payload of the broadcast in progress
    dpc,                   \* per url: position of its _send_to_webhook coroutine
    attempt,               \* per url: retry_operation's loop variable
    dresult,               \* per url: what gather() collected for it
    script,                \* per url: what the subscriber answers to its 1st, 2nd, 3rd POST
    posts,                 \* per url: POSTs the subscriber has received in this broadcast
    bret,                  \* what the last broadcast_update call returned (or raised)
    api_ret,               \* what the last register / unregister call returned
    \* ---- EnhancedRateLimiter (data_parser.py), one per DataParser ----
    requests,              \* per parser: rate_limiter.requests, the timestamps in the window
    lock,                  \* per parser: the task holding rate_limiter.lock, or None
    parser_of,             \* per task: the DataParser (hence the limiter) it calls
    tpc,                   \* per task: its position in acquire()
    wake_at,               \* per task: when its asyncio.sleep(wait_time) is over
    recorded,              \* per parser: every timestamp its limiter ever appended
    provider_log,          \* the times of all requests sent to the BirdEye provider
    \* ---- one _find_mint_address call and its requests (data_parser.py) ----
    c_symbol,              \* the symbol argument
    c_name,                \* the name argument
    c_key,                 \* whether BIRDEYE_API_KEY is set
    cpc,                   \* the step of the cascade the call is in
    rpc,                   \* position of the step's make_request_with_retry call
    retry_count,           \* make_request_with_retry's retry_count
    statuses,              \* what the provider answered to the requests of this call
    slept,                 \* the delays this call slept between its requests
    r_result,              \* what make_request_with_retry returned
    c_result,              \* what _find_mint_address returned or raised
    nacquires,             \* rate_limiter.acquire() calls of the cascade
    nrequests,             \* session.get() calls of the cascade
    \* ---- one DataParser, its cache and one get_top_tokens call (data_parser.py) ----
    g_pc,                  \* position of the get_top_tokens call
    g_args,                \* its arguments: limit, use_cache, force_refresh; and its caller
    g_pre,                 \* the age of the cache (of the file, for a load) at the call
    g_response,            \* what CoinGecko answered to the call's request
    g_market,              \* what get_solana_tokens returned to the call
    g_ret,                 \* what the last get_top_tokens call returned or raised
    g_provider_calls,      \* requests the last call sent to CoinGecko
    g_written,             \* the snapshot the last fetch wrote into parser.cache
    g_op,                  \* the last operation on the parser and how it ended
    nelapses,              \* how often time was let pass
    \* ---- one _process_holder_data call (data_parser.py) ----
    h_items,               \* the ui_amount of each item of the argument
    h_result,              \* what the call returned
    \* ---- one address resolution of get_top_tokens (data_parser.py) ----
    g_env,                 \* BirdEye as the resolution sees it, or None
    \* ---- update_token_data and its DataParser (main.py, data_parser.py) ----
    token_cache,           \* main.token_cache : the list the HTTP handlers read
    last_update,           \* main.last_update : None or the time of the last replacement
    cache,                 \* parser.cache : [timestamp, mint_mapping, tokens]
    cache_file,            \* token_cache.pkl : None or the pickled parser.cache
    data_file,             \* tokens_data.json : None or what save_tokens_to_json wrote
    consecutive_errors,    \* update_token_data's local counter
    spc,                   \* position of the update_token_data task
    market_data,           \* get_top_tokens' local: the provider's answer being resolved
    pending,               \* get_top_tokens' outcome while the client session closes
    cancel_requested,      \* update_task.cancel() was called and not yet delivered
    cancelled_in,          \* where the task stood when cancel() was called, or None
    lpc,                   \* position of lifespan
    ncycles,               \* cycles started
    fail_run,              \* failed cycles since the last successful one
    last_clears,           \* clear_cache() calls of the last finished cycle
    pre,                   \* [cache, token_cache, last_update] when the cycle started
    clock                  \* time.time() / datetime.now(), in seconds

bvars == <<registered_webhooks, last_sent_data, bpc, targets, payload_dict, dpc,
           attempt, dresult, script, posts, bret, api_ret>>

pvars == <<g_pc, g_args, g_pre, g_response, g_market, g_ret, g_provider_calls,
           g_written, g_op, nelapses, h_items, h_result, g_env>>

cvars == <<c_symbol, c_name, c_key, cpc, rpc, retry_count, statuses, slept, r_result,
           c_result, nacquires, nrequests, pvars>>

lvars == <<requests, lock, parser_of, tpc, wake_at, recorded, provider_log, cvars>>

svars == <<token_cache, last_update, cache, cache_file, data_file, consecutive_errors,
           spc, market_data, pending, cancel_requested, cancelled_in, lpc, ncycles,
           fail_run,
           last_clears, pre>>

vars == <<bvars, lvars, svars, clock>>

None == "None"                  \* Python's None where the other values are strings
NoText == <<"None">>            \* ... where they are texts
NoValue == [kind |-> "none"]    \* ... and where they are records
NoTime == -1                    \* ... and where they are times
EmptyDict == [kind |-> "dict"]  \* {}

(***************************************************************************)
(* Texts: a str is the sequence of its characters, so that upper() and     *)
(* `in` are computed as Python computes them.                              *)
(***************************************************************************)
LowerCase == <<"a","b","c","d","e","f","g","h","i","j","k","l","m",
               "n","o","p","q","r","s","t","u","v","w","x","y","z">>
UpperCase == <<"A","B","C","D","E","F","G","H","I","J","K","L","M",
               "N","O","P","Q","R","S","T","U","V","W","X","Y","Z">>

upper_char(c) ==
    IF \E i \in 1..26 : LowerCase[i] = c
    THEN UpperCase[CHOOSE i \in 1..26 : LowerCase[i] = c]
    ELSE c

\* str.upper()
upper(s) == [i \in 1..Len(s) |-> upper_char(s[i])]

\* needle in hay
contains(hay, needle) ==
    \E k \in 0..(Len(hay) - Len(needle)) : SubSeq(hay, k + 1, k + Len(needle)) = needle

\* bool(s) of an Optional[str]
truthy(s) == s # NoText /\ s # <<>>

(***************************************************************************)
(* Values                                                                  *)
(***************************************************************************)
Urls == {"https://a", "https://b", "https://c"}

\* TokenData (schemas.py): the fields the pipeline reads.
Token(rank, name, symbol, mint, cap, vol) ==
    [rank |-> rank, name |-> name, symbol |-> symbol, mint_address |-> mint,
     market_cap |-> cap, volume_24h |-> vol]

\* name: str, symbol: str -- pydantic rejects None for them.
ValidTokenData(name, symbol) == name # NoText /\ symbol # NoText

tSOL == <<"S", "O", "L">>
tSolana == <<"S", "o", "l", "a", "n", "a">>
tFOO == <<"F", "O", "O">>
tFoo == <<"F", "o", "o">>

SampleSnapshots ==
    { << Token(1, tSolana, tSOL, "So11111111111111111111111111111111111111112", 5, 2) >>,
      << Token(1, tSolana, tSOL, "So11111111111111111111111111111111111111112", 5, 2),
         Token(2, tFoo, tFOO, None, 3, 1) >> }

\* What one POST to a subscriber ends in.
Status(code) == [kind |-> "status", code |-> code]
Timeout == [kind |-> "timeout", code |-> 0]
ConnError == [kind |-> "connection_error", code |-> 0]

Failing(o) == ~(o.kind = "status" /\ o.code \in {200, 201, 202})

\* A subscriber's behaviour: its answers to the 1st, 2nd and 3rd POST of a broadcast.
Scripts ==
    { << Status(200), Status(200), Status(200) >>,
      << Status(201), Status(202), Status(200) >>,
      << Status(500), Timeout, ConnError >>,
      << Status(204), Status(200), Status(200) >>,
      << Timeout, ConnError, Status(202) >> }

\* settings.UPDATE_INTERVAL
UPDATE_INTERVAL == 300

(***************************************************************************)
(* helpers.py                                                              *)
(***************************************************************************)
Return(v) == [kind |-> "return", value |-> v]
Raise == [kind |-> "raise", value |-> FALSE]

\* A send_webhook that accepts every 2xx status.
send_webhook_2xx(o) ==
    IF o.kind = "status"
    THEN Return(o.code >= 200 /\ o.code < 300)
    ELSE Return(FALSE)

\* send_webhook: True for 200/201/202, False for any other status and for
\* any exception of the POST (the whole body is inside try/except Exception).
send_webhook(o) ==
    IF o.kind = "status"
    THEN IF o.code \in {200, 201, 202} THEN Return(TRUE) ELSE Return(FALSE)
    ELSE Return(FALSE)

\* 2 ** attempt
Pow2(n) == IF n = 0 THEN 1 ELSE IF n = 1 THEN 2 ELSE IF n = 2 THEN 4 ELSE 8

\* One pass of retry_operation's loop body for the operation's outcome r:
\* a returned value is returned at once (whatever it is); only an exception
\* is retried, and re-raised on the last attempt.
retry_operation(r, att, max_retries, delay) ==
    IF r.kind = "return"
    THEN [next |-> "return", value |-> r.value, wait |-> 0]
    ELSE IF att = max_retries - 1
         THEN [next |-> "raise", value |-> FALSE, wait |-> 0]
         ELSE [next |-> "sleep", value |-> FALSE, wait |-> delay * Pow2(att)]

(***************************************************************************)
(* handlers.py : WebhookManager                                            *)
(***************************************************************************)
Sum(f, S) ==
    LET RECURSIVE go(_)
        go(T) == IF T = {} THEN 0
                 ELSE LET x == CHOOSE y \in T : TRUE IN f[x] + go(T \ {x})
    IN go(S)

calculate_totals(tokens) ==
    [total_market_cap |-> Sum([i \in 1..Len(tokens) |-> tokens[i].market_cap], 1..Len(tokens)),
     total_volume_24h |-> Sum([i \in 1..Len(tokens) |-> tokens[i].volume_24h], 1..Len(tokens))]

WebhookPayload(tokens, update_interval, now) ==
    [timestamp |-> now,
     update_interval |-> update_interval,
     total_tokens |-> Len(tokens),
     total_market_cap |-> calculate_totals(tokens).total_market_cap,
     total_volume_24h |-> calculate_totals(tokens).total_volume_24h,
     tokens |-> tokens]

\* register_webhook without the membership test
register_webhook_unchecked(url) ==
    /\ registered_webhooks' = registered_webhooks \cup {url}
    /\ api_ret' = [op |-> "register", ok |-> TRUE]
    /\ UNCHANGED <<last_sent_data, bpc, targets, payload_dict, dpc, attempt,
                   dresult, script, posts, bret>>
    /\ UNCHANGED <<lvars, svars, clock>>

register_webhook(url) ==
    /\ IF url \in registered_webhooks
       THEN /\ api_ret' = [op |-> "register", ok |-> FALSE]
            /\ UNCHANGED registered_webhooks
       ELSE /\ registered_webhooks' = registered_webhooks \cup {url}
            /\ api_ret' = [op |-> "register", ok |-> TRUE]
    /\ UNCHANGED <<last_sent_data, bpc, targets, payload_dict, dpc, attempt,
                   dresult, script, posts, bret>>
    /\ UNCHANGED <<lvars, svars, clock>>

unregister_webhook(url) ==
    /\ IF url \in registered_webhooks
       THEN /\ registered_webhooks' = registered_webhooks \ {url}
            /\ api_ret' = [op |-> "unregister", ok |-> TRUE]
       ELSE /\ api_ret' = [op |-> "unregister", ok |-> FALSE]
            /\ UNCHANGED registered_webhooks
    /\ UNCHANGED <<last_sent_data, bpc, targets, payload_dict, dpc, attempt,
                   dresult, script, posts, bret>>
    /\ UNCHANGED <<lvars, svars, clock>>

\* No delivery is in progress.
NoDeliveries ==
    /\ dpc' = [u \in Urls |-> "none"]
    /\ attempt' = [u \in Urls |-> 0]
    /\ dresult' = [u \in Urls |-> None]
    /\ posts' = [u \in Urls |-> 0]
    /\ script' = [u \in Urls |-> <<>>]

\* broadcast_update up to its await on gather(): the early return for an empty
\* subscriber set, else the payload and one _send_to_webhook coroutine per url.
\* if not self.registered_webhooks: ... return {"sent": 0, "failed": 0}
no_subscribers_unchecked(urls) == FALSE

no_subscribers(urls) == urls = {}

BroadcastBegin(tokens, update_interval) ==
    /\ bpc = "idle"
    /\ NoDeliveries
    /\ IF no_subscribers(registered_webhooks)
       THEN /\ bret' = [kind |-> "return", sent |-> 0, failed |-> 0]
            /\ targets' = {}
            /\ UNCHANGED <<bpc, payload_dict>>
       ELSE /\ payload_dict' = WebhookPayload(tokens, update_interval, clock)
            /\ targets' = registered_webhooks
            /\ bpc' = "gather"
            /\ bret' = NoValue
    /\ UNCHANGED <<registered_webhooks, last_sent_data, api_ret>>

\* send_webhook's session.post(...): the request leaves, the coroutine awaits.
\* The subscriber's behaviour for this broadcast is fixed when its first POST arrives.
\* gather() wraps every coroutine in a task of its own: a delivery can take its
\* next step whatever the other deliveries are doing.
runnable_in_turn(positions, u) ==
    /\ positions[u] \in {"none", "ready"}
    /\ \A v \in DOMAIN positions : v # u => positions[v] \notin {"inflight", "ready"}

runnable(positions, u) == positions[u] \in {"none", "ready"}

PostAttempt(u) ==
    /\ bpc = "gather"
    /\ u \in targets
    /\ runnable(dpc, u)
    /\ ~cancel_requested
    /\ dpc' = [dpc EXCEPT ![u] = "inflight"]
    /\ posts' = [posts EXCEPT ![u] = @ + 1]
    /\ IF posts[u] = 0
       THEN \E scr \in Scripts : script' = [script EXCEPT ![u] = scr]
       ELSE UNCHANGED script
    /\ UNCHANGED <<registered_webhooks, last_sent_data, bpc, targets, payload_dict,
                   attempt, dresult, bret, api_ret>>
    /\ UNCHANGED <<lvars, svars, clock>>

\* _send_to_webhook: retry_operation(send_operation, max_retries=3, delay=2.0)
\* inside try/except Exception -> False.
send_to_webhook(o, att) ==
    LET step == retry_operation(send_webhook(o), att, 3, 2)
    IN  IF step.next = "raise"
        THEN [next |-> "return", value |-> FALSE, wait |-> 0]
        ELSE step

\* The answer to the POST in flight arrives: the coroutine returns a value,
\* ends in an exception, or goes on to its next attempt.
Response(u) ==
    /\ bpc = "gather"
    /\ dpc[u] = "inflight"
    /\ ~cancel_requested
    /\ LET step == send_to_webhook(script[u][posts[u]], attempt[u])
       IN  CASE step.next = "return" ->
                /\ dresult' = [dresult EXCEPT ![u] = IF step.value THEN "True" ELSE "False"]
                /\ dpc' = [dpc EXCEPT ![u] = "done"]
                /\ UNCHANGED attempt
             [] step.next = "raise" ->
                /\ dresult' = [dresult EXCEPT ![u] = "exception"]
                /\ dpc' = [dpc EXCEPT ![u] = "done"]
                /\ UNCHANGED attempt
             [] OTHER ->
                /\ attempt' = [attempt EXCEPT ![u] = @ + 1]
                /\ dpc' = [dpc EXCEPT ![u] = "ready"]
                /\ UNCHANGED dresult
    /\ UNCHANGED <<registered_webhooks, last_sent_data, bpc, targets, payload_dict,
                   script, posts, bret, api_ret>>
    /\ UNCHANGED <<lvars, svars, clock>>

\* gather(*coros, return_exceptions=True): with return_exceptions an exception of a
\* coroutine is one of the results; without it, it is raised to the caller.
gather_raises(results, urls, return_exceptions) ==
    ~return_exceptions /\ \E u \in urls : results[u] = "exception"

\* successful = sum(1 for result in results if result is True); failed = the rest.
count_results(results, urls) ==
    LET successful == Cardinality({u \in urls : results[u] = "True"})
    IN  [kind |-> "return", sent |-> successful, failed |-> Cardinality(urls) - successful]

\* results holds one entry per coroutine of the list comprehension, which was
\* built from self.registered_webhooks before gather() was awaited.
gathered_from_live_set(at_start, now) == now

gathered(at_start, now) == at_start

\* gather() is complete: count, store last_sent_data, return.
BroadcastFinish ==
    /\ bpc = "gather"
    /\ \A u \in targets : dpc[u] = "done"
    /\ bpc' = "idle"
    /\ IF gather_raises(dresult, targets, TRUE)
       THEN /\ bret' = [kind |-> "raise", sent |-> 0, failed |-> 0]
            /\ UNCHANGED last_sent_data
       ELSE /\ bret' = count_results(dresult, gathered(targets, registered_webhooks))
            /\ last_sent_data' = [timestamp |-> clock, payload |-> payload_dict]
    /\ UNCHANGED <<registered_webhooks, targets, payload_dict, dpc, attempt, dresult,
                   script, posts, api_ret>>

\* WebhookManager.__init__
BInit ==
    /\ registered_webhooks = {}
    /\ last_sent_data = EmptyDict
    /\ bpc = "idle"
    /\ targets = {}
    /\ payload_dict = NoValue
    /\ dpc = [u \in Urls |-> "none"]
    /\ attempt = [u \in Urls |-> 0]
    /\ dresult = [u \in Urls |-> None]
    /\ script = [u \in Urls |-> <<>>]
    /\ posts = [u \in Urls |-> 0]
    /\ bret = NoValue
    /\ api_ret = NoValue

(***************************************************************************)
(* data_parser.py : EnhancedRateLimiter                                    *)
(***************************************************************************)
Tasks == {"t0", "t1", "t2"}
Parsers == {"p0", "p1", "p2"}

\* EnhancedRateLimiter(max_requests, time_window): DataParser builds it with
\* (35, 60); the model runs the same code with a small window.
max_requests == 2
time_window == 3
MaxTime == 6
MaxProviderRequests == 3

\* [req_time for req_time in self.requests if now - req_time < self.time_window]
InWindow(reqs, now) == SelectSeq(reqs, LAMBDA t : now - t < time_window)

\* min(self.requests)
MinOf(reqs) == CHOOSE m \in {reqs[i] : i \in 1..Len(reqs)} :
                  \A i \in 1..Len(reqs) : m <= reqs[i]

\* wait_time = self.time_window - (now - oldest_request) + 1
wait_time(reqs, now) == time_window - (now - MinOf(reqs)) + 1

\* if len(self.requests) >= self.max_requests
WindowFull_off_by_one(reqs) == Len(reqs) > max_requests

WindowFull(reqs) == Len(reqs) >= max_requests

\* A task calls acquire() and queues for rate_limiter.lock.
AcquireCall(t) ==
    /\ tpc[t] = "idle"
    /\ tpc' = [tpc EXCEPT ![t] = "lock"]
    /\ UNCHANGED <<requests, lock, parser_of, wake_at, recorded, provider_log, clock>>
    /\ UNCHANGED <<bvars, svars, cvars>>

\* The end of "async with self.lock": the lock is released when acquire() is left.
lock_after_acquire_kept(t) == t

lock_after_acquire(t) == None

\* self.requests.append(now), the lock is released, acquire() returns and the
\* caller's request goes out to the provider.
Admit(t, p, reqs, now) ==
    /\ requests' = [requests EXCEPT ![p] = Append(reqs, now)]
    /\ recorded' = [recorded EXCEPT ![p] = Append(@, now)]
    /\ provider_log' = Append(provider_log, now)
    /\ lock' = [lock EXCEPT ![p] = lock_after_acquire(t)]
    /\ tpc' = [tpc EXCEPT ![t] = "idle"]

\* acquire() from taking the lock to its first await: drop the timestamps that
\* left the window; if the window is full, sleep (holding the lock) until the
\* oldest one has left; else append now and return.
EnterLock(t) ==
    LET p == parser_of[t]
        now == clock
        reqs == InWindow(requests[p], now)
    IN  /\ tpc[t] = "lock"
        /\ lock[p] = None
        /\ IF WindowFull(reqs) /\ wait_time(reqs, now) > 0
           THEN /\ requests' = [requests EXCEPT ![p] = reqs]
                /\ lock' = [lock EXCEPT ![p] = t]
                /\ tpc' = [tpc EXCEPT ![t] = "sleep"]
                /\ wake_at' = [wake_at EXCEPT ![t] = now + wait_time(reqs, now)]
                /\ UNCHANGED <<recorded, provider_log>>
           ELSE /\ Admit(t, p, reqs, now)
                /\ UNCHANGED wake_at
        /\ UNCHANGED <<parser_of, clock>>
        /\ UNCHANGED <<bvars, svars, cvars>>

\* asyncio.sleep(wait_time) is over (it may oversleep): read the time again,
\* drop the timestamps that left the window, append now and return.
WakeUp(t) ==
    LET p == parser_of[t]
        now == clock
    IN  /\ tpc[t] = "sleep"
        /\ clock >= wake_at[t]
        /\ Admit(t, p, InWindow(requests[p], now), now)
        /\ wake_at' = [wake_at EXCEPT ![t] = 0]
        /\ UNCHANGED <<parser_of, clock>>
        /\ UNCHANGED <<bvars, svars, cvars>>

\* main.py get_token_holders: each request builds its own DataParser(), hence
\* its own EnhancedRateLimiter with an empty window, and calls
\* parser.get_token_holders, which starts with rate_limiter.acquire().
GetTokenHolders(t) ==
    LET p == parser_of[t]
    IN  /\ tpc[t] = "idle"
        /\ Len(provider_log) < MaxProviderRequests
        /\ requests' = [requests EXCEPT ![p] = <<>>]
        /\ recorded' = [recorded EXCEPT ![p] = <<>>]
        /\ lock' = [lock EXCEPT ![p] = None]
        /\ tpc' = [tpc EXCEPT ![t] = "lock"]
        /\ UNCHANGED <<parser_of, wake_at, provider_log, clock>>
        /\ UNCHANGED <<bvars, svars, cvars>>

\* EnhancedRateLimiter.__init__, and no task inside acquire()
LInit ==
    /\ requests = [p \in Parsers |-> <<>>]
    /\ lock = [p \in Parsers |-> None]
    /\ tpc = [t \in Tasks |-> "idle"]
    /\ wake_at = [t \in Tasks |-> 0]
    /\ recorded = [p \in Parsers |-> <<>>]
    /\ provider_log = <<>>

\* A second passes.
Tick ==
    /\ clock < MaxTime
    /\ clock' = clock + 1
    /\ UNCHANGED <<bvars, lvars, svars>>

(***************************************************************************)
(* data_parser.py : DataParser, the address cascade                        *)
(***************************************************************************)
\* What make_request_with_retry hands back: None, the 401 dict {"error": ...},
\* the JSON body of a 200, or a body whose "data" is null.
ReqNone == [kind |-> "None", success |-> FALSE, items |-> <<>>]
ReqError == [kind |-> "error", success |-> FALSE, items |-> <<>>]
ReqMalformed == [kind |-> "malformed", success |-> TRUE, items |-> <<>>]
ReqBody(success, items) == [kind |-> "body", success |-> success, items |-> items]

Item(symbol, name, address) == [symbol |-> symbol, name |-> name, address |-> address]

\* data and data.get("success") and "data" in data and "items" in data["data"]
Usable(data) == data.kind = "body" /\ data.success

\* The loop "for item in items: if item.get('symbol', '').upper() == symbol ..."
\* from item i on: the first exact match with an address, an AttributeError on a
\* null symbol, or nothing.
RECURSIVE exact_symbol_match(_, _, _)
exact_symbol_match(items, i, symbol) ==
    IF i > Len(items) THEN Return(None)
    ELSE IF items[i].symbol = NoText THEN Raise
    ELSE IF upper(items[i].symbol) = symbol /\ items[i].address # None
         THEN Return(items[i].address)
         ELSE exact_symbol_match(items, i + 1, symbol)

\* _search_birdeye_by_symbol: None without a key and on any exception.
search_birdeye_by_symbol(symbol, key, data) ==
    IF ~key THEN None
    ELSE IF data.kind = "malformed" THEN None
    ELSE IF ~Usable(data) THEN None
    ELSE LET exact == exact_symbol_match(data.items, 1, symbol)
         IN  IF exact.kind = "raise" THEN None
             ELSE IF exact.value # None THEN exact.value
             ELSE IF Len(data.items) > 0 THEN data.items[1].address
             ELSE None

\* _search_birdeye_by_name: the first item's address.
search_birdeye_by_name(name, key, data) ==
    IF ~key THEN None
    ELSE IF data.kind = "malformed" THEN None
    ELSE IF Usable(data) /\ Len(data.items) > 0 THEN data.items[1].address
    ELSE None

\* _get_popular_tokens: [] without a key and on any exception.
get_popular_tokens(key, data) ==
    IF ~key THEN <<>>
    ELSE IF data.kind = "malformed" THEN <<>>
    ELSE IF Usable(data) THEN data.items
    ELSE <<>>

\* Method 4 of _find_mint_address from popular token i on.
RECURSIVE popular_match(_, _, _, _)
popular_match(popular, i, symbol, name) ==
    IF i > Len(popular) THEN Return(None)
    ELSE IF popular[i].symbol = NoText \/ popular[i].name = NoText THEN Raise
    ELSE LET token_symbol == upper(popular[i].symbol)
             token_name == upper(popular[i].name)
         IN  IF token_symbol = symbol \/ contains(token_name, symbol)
             THEN Return(popular[i].address)
             ELSE IF name = NoText THEN Raise
             ELSE IF contains(name, token_symbol) THEN Return(popular[i].address)
             ELSE popular_match(popular, i + 1, symbol, name)

known_token_addresses ==
    (<<"S", "O", "L">> :> "So11111111111111111111111111111111111111112") @@
    (<<"U", "S", "D", "C">> :> "EPjFWdd5AufqSSqeM2qN1xzybapC8G4wEGGkZwyTDt1v") @@
    (<<"U", "S", "D", "T">> :> "Es9vMFrzaCERmJfrF4H2FYD4KCoNkY11McCe8BenwNYB") @@
    (<<"B", "O", "N", "K">> :> "DezXAZ8z7PnrnRJjz3wXBoRgixCa6xjnB7YaB1pPB263") @@
    (<<"J", "U", "P">> :> "JUPyiwrYJFskUPiHa7hkeR8VUtAeFoSYbKedZNsDvCN") @@
    (<<"P", "Y", "T", "H">> :> "HZ1JovNiVvGrGNiiYvEozEVgZ58xaU3RKwX8eACQBCt3") @@
    (<<"J", "T", "O">> :> "jtojtomepa8beP8AuQc6eXt5FriJwfFMwQx2v2f9mCL") @@
    (<<"W", "I", "F">> :> "EKpQGSJtjMFqKZ9KQanSqYXRcF8fBopzLHYxdM65zcjm") @@
    (<<"B", "O", "M", "E">> :> "ukHH6c7mMyiWCf1b9pnWe25TSpkDDt3H5pQZgZ74J82") @@
    (<<"P", "O", "P", "C", "A", "T">> :> "7GCBgCHZQfPwjQ1fjNsWQXUoroRc3bRsnqtQDpV3kzoc") @@
    (<<"R", "A", "Y">> :> "4k3Dyjzvzp8eMZWUXbBCjEvwSkkk59S5iCNLY3QrkX6R") @@
    (<<"O", "R", "C", "A">> :> "orcaEKTdK7LKz57vaAYr9QeNsVEPfiu6QeMU1kektZE") @@
    (<<"M", "S", "O", "L">> :> "mSoLzYCxHdYgdzU16g5QSh3i5K3z3KZK7ytfqcJm7So") @@
    (<<"J", "I", "T", "O", "S", "O", "L">> :> "J1toso1uCk3RLmjorhTtrVwY9HJ7X8V9yYac6Y7kGCPn") @@
    (<<"R", "E", "N", "D", "E", "R">> :> "rndrizKT3MK1iimdxRdWabcF7Zg7AR5T4nud4EkHBof")

\* _find_mint_address(symbol, name) against the provider be =
\* [key, by_symbol, by_name, popular]: the value returned, or an exception.
find_mint_address(symbol, name, be) ==
    IF symbol \in DOMAIN known_token_addresses
    THEN Return(known_token_addresses[symbol])
    ELSE LET m2 == search_birdeye_by_symbol(symbol, be.key, be.by_symbol)
             m3 == IF truthy(name)
                   THEN search_birdeye_by_name(name, be.key, be.by_name)
                   ELSE None
         IN  IF m2 # None THEN Return(m2)
             ELSE IF m3 # None THEN Return(m3)
             ELSE popular_match(get_popular_tokens(be.key, be.popular), 1, symbol, name)

\* A dict as a function; d.get(k)
EmptyMap == [k \in {} |-> None]
MapGet(d, k) == IF k \in DOMAIN d THEN d[k] ELSE None
MapPut(d, k, v) == [x \in (DOMAIN d) \cup {k} |-> IF x = k THEN v ELSE d[x]]

\* _get_mint_addresses_from_birdeye from entry i on: mint_mapping[symbol] is
\* overwritten entry by entry; a null symbol or an exception of the cascade
\* leaves the function as an exception.
RECURSIVE get_mint_addresses_from_birdeye(_, _, _, _)
get_mint_addresses_from_birdeye(md, i, mapping, be) ==
    IF i > Len(md) THEN Return(mapping)
    ELSE IF md[i].symbol = NoText THEN Raise
    ELSE LET symbol == upper(md[i].symbol)
             found == find_mint_address(symbol, md[i].name, be)
         IN  IF found.kind = "raise" THEN Raise
             ELSE get_mint_addresses_from_birdeye(md, i + 1, MapPut(mapping, symbol, found.value), be)

\* _parse_token_data_with_mint: the TokenData, or None on any exception
\* (a null symbol, a field TokenData rejects).
parse_token_data_needs_mint(data, rank, mint_mapping) ==
    IF data.symbol = NoText THEN NoValue
    ELSE IF ~ValidTokenData(data.name, upper(data.symbol)) THEN NoValue
    ELSE IF MapGet(mint_mapping, upper(data.symbol)) = None THEN NoValue
    ELSE Token(rank, data.name, upper(data.symbol),
               MapGet(mint_mapping, upper(data.symbol)),
               data.market_cap, data.total_volume)

parse_token_data_with_mint(data, rank, mint_mapping) ==
    IF data.symbol = NoText THEN NoValue
    ELSE IF ~ValidTokenData(data.name, upper(data.symbol)) THEN NoValue
    ELSE Token(rank, data.name, upper(data.symbol),
               MapGet(mint_mapping, upper(data.symbol)),
               data.market_cap, data.total_volume)

\* for idx, token_data in enumerate(market_data, 1): ... if token: tokens.append(token)
RECURSIVE parse_all(_, _, _)
parse_all(md, i, mint_mapping) ==
    IF i > Len(md) THEN <<>>
    ELSE LET token == parse_token_data_with_mint(md[i], i, mint_mapping)
         IN  IF token = NoValue
             THEN parse_all(md, i + 1, mint_mapping)
             ELSE <<token>> \o parse_all(md, i + 1, mint_mapping)

\* {token.symbol: token.mint_address for token in tokens}
RECURSIVE mapping_of(_, _)
mapping_of(tokens, i) ==
    IF i > Len(tokens) THEN EmptyMap
    ELSE LET rest == mapping_of(tokens, i + 1)
         IN  IF tokens[i].symbol \in DOMAIN rest THEN rest
             ELSE MapPut(rest, tokens[i].symbol, tokens[i].mint_address)

\* DataParser(cache_ttl=3600)
cache_ttl == 3600

EmptyCache == [timestamp |-> 0, mint_mapping |-> EmptyMap, tokens |-> <<>>]

\* _is_cache_valid
is_cache_valid_inclusive(c, now) == now - c.timestamp <= cache_ttl

is_cache_valid(c, now) == now - c.timestamp < cache_ttl

\* get_top_tokens between the provider's answer and the close of the client
\* session: what it is about to return, and the cache it is about to write.
resolve_and_parse(md, be) ==
    LET mm == get_mint_addresses_from_birdeye(md, 1, EmptyMap, be)
    IN  IF mm.kind = "raise"
        THEN [kind |-> "raise", tokens |-> <<>>]
        ELSE [kind |-> "tokens", tokens |-> parse_all(md, 1, mm.value)]

\* The file after open(path, 'wb') and dump(content): written, untouched when
\* open fails, truncated when the dump fails.
Corrupt == [kind |-> "corrupt"]
NoFile == [kind |-> "missing"]
file_after_write(file, content, disk) ==
    CASE disk = "ok" -> content
      [] disk = "open_failed" -> file
      [] OTHER -> Corrupt

\* os.path.exists / os.remove in clear_cache; an exception is swallowed.
file_after_remove(file, disk) ==
    IF file = NoFile THEN NoFile
    ELSE IF disk = "ok" THEN NoFile ELSE file

DiskOutcomes == {"ok", "write_failed"}

(***************************************************************************)
(* The providers' answers                                                  *)
(***************************************************************************)
\* One entry of CoinGecko's /coins/markets answer: the fields the parser reads.
Entry(symbol, name, cap, vol) ==
    [symbol |-> symbol, name |-> name, market_cap |-> cap, total_volume |-> vol]

tsol == <<"s", "o", "l">>
tfoo == <<"f", "o", "o">>

\* get_solana_tokens returns [] on a non-200 answer and on any exception.
MarketResponses ==
    { <<>>,
      << Entry(tsol, tSolana, 5, 2), Entry(tfoo, tFoo, 3, 1) >>,
      << Entry(tfoo, NoText, 3, 1) >>,
      << Entry(tfoo, NoText, 3, 1), Entry(tsol, tSolana, 5, 2) >>,
      << Entry(NoText, tFoo, 3, 1) >> }

\* BirdEye as one cycle sees it: whether BIRDEYE_API_KEY is set, and the answers
\* to the search by symbol, the search by name and the popular-token list.
BirdEye(key, by_symbol, by_name, popular) ==
    [key |-> key, by_symbol |-> by_symbol, by_name |-> by_name, popular |-> popular]

BirdEyeEnvs ==
    { BirdEye(FALSE, ReqNone, ReqNone, ReqNone),
      BirdEye(TRUE, ReqNone, ReqError, ReqBody(TRUE, << Item(NoText, tFoo, "FooMint") >>)) }

(***************************************************************************)
(* main.py : update_token_data, save_tokens_to_json, lifespan              *)
(***************************************************************************)
\* max_consecutive_errors = 3
max_consecutive_errors == 3

MaxCycles == 4

NoPending == [kind |-> "none", tokens |-> <<>>, write |-> FALSE]

\* The awaits of one cycle that lie inside the try block of the loop.
InTry == {"fetching", "resolving", "closing", "broadcast"}
Ended == {"done", "cancelled", "crashed"}

\* The except clauses of the loop: CancelledError breaks out of it, any other
\* Exception is handled and the loop goes on.
on_exception_uncaught(exc) == IF exc = "CancelledError" THEN "break" ELSE "propagate"

on_exception(exc) == IF exc = "CancelledError" THEN "break" ELSE "handled"

\* The task after a CancelledError is thrown into it at position pos: inside the
\* try the loop breaks and the coroutine returns; the sleep is outside the try,
\* the error leaves the coroutine and the task ends cancelled.
task_after_cancel_swallowed(pos) ==
    IF pos \in InTry THEN "done" ELSE "fetching"

task_after_cancel(pos) ==
    IF pos \in InTry
    THEN IF on_exception("CancelledError") = "break" THEN "done" ELSE "crashed"
    ELSE "cancelled"

\* consecutive_errors += 1; if consecutive_errors >= max_consecutive_errors:
\* clear_cache(); consecutive_errors = 0
count_failure_never_reset(n) ==
    [counter |-> n + 1, clear |-> n + 1 >= max_consecutive_errors]

count_failure(n) ==
    IF n + 1 >= max_consecutive_errors
    THEN [counter |-> 0, clear |-> TRUE]
    ELSE [counter |-> n + 1, clear |-> FALSE]

\* get_tokens_json / get_tokens: what a reader is shown.
get_tokens_json ==
    IF token_cache = <<>>
    THEN [tokens |-> <<>>, last_updated |-> NoTime, total_tokens |-> 0]
    ELSE [tokens |-> token_cache, last_updated |-> last_update,
          total_tokens |-> Len(token_cache)]

\* Where a failed cycle leaves the loop: both the else branch and the except
\* Exception clause fall through to asyncio.sleep(UPDATE_INTERVAL).
after_failure_retry_at_once(kind) == IF kind = "raise" THEN "fetching" ELSE "sleep"

after_failure(kind) == "sleep"

\* The branch "no tokens" of the loop and its except Exception clause, with
\* c and cf the parser's cache and cache file as get_top_tokens left them.
FailedCycle(c, cf, disk) ==
    LET f == count_failure(consecutive_errors)
    IN  /\ consecutive_errors' = f.counter
        /\ IF f.clear
           THEN /\ cache' = EmptyCache
                /\ cache_file' = file_after_remove(cf, disk)
           ELSE /\ cache' = c
                /\ cache_file' = cf
        /\ fail_run' = fail_run + 1
        /\ last_clears' = IF f.clear THEN 1 ELSE 0
        /\ spc' = after_failure(pending.kind)
        /\ UNCHANGED <<token_cache, last_update, data_file>>
        /\ UNCHANGED bvars

\* consecutive_errors = 0 in the branch "if tokens:"; save_tokens_to_json catches
\* its own exceptions and the call is wrapped in a try of its own.
errors_after_success_counting_save(n, disk) == IF disk = "ok" THEN 0 ELSE n + 1

errors_after_success(n, disk) == 0

\* await webhook_manager.broadcast_update(...): without subscribers the call
\* returns without suspending, otherwise the loop waits in it for the gather().
await_broadcast_detached(urls) == "sleep"

await_broadcast(urls) == IF urls = {} THEN "sleep" ELSE "broadcast"

\* The branch "if tokens:" of the loop up to the await inside broadcast_update.
SuccessfulCycle(c, cf, tokens, disk) ==
    /\ cache' = c
    /\ cache_file' = cf
    /\ token_cache' = tokens
    /\ last_update' = clock
    /\ consecutive_errors' = errors_after_success(consecutive_errors, disk)
    /\ fail_run' = 0
    /\ last_clears' = 0
    /\ data_file' = file_after_write(data_file, [last_updated |-> clock, tokens |-> tokens], disk)
    /\ BroadcastBegin(tokens, UPDATE_INTERVAL)
    /\ spc' = await_broadcast(registered_webhooks)

\* client.get_solana_tokens answers.  An empty answer returns [] from inside the
\* async with block, before any cache write.
MarketData(md) ==
    /\ spc = "fetching"
    /\ ~cancel_requested
    /\ market_data' = md
    /\ IF md = <<>>
       THEN /\ pending' = [kind |-> "tokens", tokens |-> <<>>, write |-> FALSE]
            /\ spc' = "closing"
       ELSE /\ pending' = NoPending
            /\ spc' = "resolving"
    /\ UNCHANGED <<token_cache, last_update, cache, cache_file, data_file,
                   consecutive_errors, cancel_requested, cancelled_in, lpc, ncycles,
                   fail_run, last_clears, pre>>
    /\ UNCHANGED <<bvars, lvars, clock>>

\* The BirdEye lookups of _get_mint_addresses_from_birdeye are answered and the
\* entries parsed; the client session is about to be closed.
Resolve(be) ==
    /\ spc = "resolving"
    /\ ~cancel_requested
    /\ LET r == resolve_and_parse(market_data, be)
       IN  pending' = [kind |-> r.kind, tokens |-> r.tokens, write |-> r.kind = "tokens"]
    /\ spc' = "closing"
    /\ UNCHANGED <<token_cache, last_update, cache, cache_file, data_file,
                   consecutive_errors, market_data, cancel_requested, cancelled_in,
                   lpc, ncycles, fail_run, last_clears, pre>>
    /\ UNCHANGED <<bvars, lvars, clock>>

\* The client session is closed: get_top_tokens writes its cache and returns (or
\* its exception reaches the loop), and the loop runs on to its next await.
Commit(disk) ==
    /\ spc = "closing"
    /\ ~cancel_requested
    /\ LET c == IF pending.write
                THEN [timestamp |-> clock,
                      mint_mapping |-> mapping_of(pending.tokens, 1),
                      tokens |-> pending.tokens]
                ELSE cache
           cf == IF pending.write
                 THEN file_after_write(cache_file, c, disk)
                 ELSE cache_file
       IN  IF pending.kind = "raise"
           THEN IF on_exception("Exception") = "handled"
                THEN FailedCycle(c, cf, disk)
                ELSE /\ spc' = "crashed"
                     /\ UNCHANGED <<token_cache, last_update, cache, cache_file,
                                    data_file, consecutive_errors, fail_run, last_clears>>
                     /\ UNCHANGED bvars
           ELSE IF pending.tokens # <<>>
                THEN SuccessfulCycle(c, cf, pending.tokens, disk)
                ELSE FailedCycle(c, cf, disk)
    /\ UNCHANGED <<market_data, pending, cancel_requested, cancelled_in, lpc, ncycles, pre>>
    /\ UNCHANGED <<lvars, clock>>

\* The deliveries of the cycle's broadcast, and the return of broadcast_update.
CycleBroadcastFinish ==
    /\ spc = "broadcast"
    /\ ~cancel_requested
    /\ BroadcastFinish
    /\ spc' = "sleep"
    /\ UNCHANGED <<token_cache, last_update, cache, cache_file, data_file,
                   consecutive_errors, market_data, pending, cancel_requested,
                   cancelled_in, lpc, ncycles, fail_run, last_clears, pre>>
    /\ UNCHANGED <<lvars, clock>>

\* asyncio.sleep(UPDATE_INTERVAL) is over: the next cycle starts.  The locals of
\* the finished get_top_tokens and broadcast_update calls are gone.
SleepDone ==
    /\ spc = "sleep"
    /\ ~cancel_requested
    /\ ncycles < MaxCycles
    /\ clock' = clock + UPDATE_INTERVAL
    /\ spc' = "fetching"
    /\ ncycles' = ncycles + 1
    /\ pre' = [cache |-> cache, token_cache |-> token_cache, last_update |-> last_update]
    /\ NoDeliveries
    /\ bret' = NoValue
    /\ targets' = {}
    /\ payload_dict' = NoValue
    /\ market_data' = <<>>
    /\ pending' = NoPending
    /\ UNCHANGED <<registered_webhooks, last_sent_data, bpc, api_ret>>
    /\ UNCHANGED <<token_cache, last_update, cache, cache_file, data_file,
                   consecutive_errors, cancel_requested, cancelled_in, lpc,
                   fail_run, last_clears>>
    /\ UNCHANGED lvars

\* lifespan's shutdown: update_task.cancel()
Cancel ==
    /\ lpc = "running"
    /\ spc \notin Ended
    /\ cancel_requested' = TRUE
    /\ cancelled_in' = spc
    /\ lpc' = "awaiting"
    /\ UNCHANGED <<token_cache, last_update, cache, cache_file, data_file,
                   consecutive_errors, spc, market_data, pending, ncycles, fail_run,
                   last_clears, pre>>
    /\ UNCHANGED <<bvars, lvars, clock>>

\* gather() when the task awaiting it is cancelled: every coroutine that has not
\* completed is cancelled with it, the completed ones keep their result.
gather_cancelled(positions) ==
    [u \in DOMAIN positions |->
        IF positions[u] \in {"inflight", "ready"} THEN "cancelled" ELSE positions[u]]

\* The task is resumed with the CancelledError; a gather() in progress is
\* cancelled with it.
DeliverCancel ==
    /\ cancel_requested
    /\ cancel_requested' = FALSE
    /\ spc' = task_after_cancel(spc)
    /\ IF spc = "broadcast"
       THEN /\ bpc' = "idle"
            /\ bret' = [kind |-> "cancelled", sent |-> 0, failed |-> 0]
            /\ dpc' = gather_cancelled(dpc)
            /\ UNCHANGED <<registered_webhooks, last_sent_data, targets, payload_dict,
                           attempt, dresult, script, posts, api_ret>>
       ELSE UNCHANGED bvars
    /\ UNCHANGED <<token_cache, last_update, cache, cache_file, data_file,
                   consecutive_errors, market_data, pending, cancelled_in, lpc, ncycles,
                   fail_run, last_clears, pre>>
    /\ UNCHANGED <<lvars, clock>>

\* try: await update_task / except asyncio.CancelledError: pass
lifespan_await(task) == IF task \in {"done", "cancelled"} THEN "stopped" ELSE "error"

LifespanStop ==
    /\ lpc = "awaiting"
    /\ spc \in Ended
    /\ lpc' = lifespan_await(spc)
    /\ UNCHANGED <<token_cache, last_update, cache, cache_file, data_file,
                   consecutive_errors, spc, market_data, pending, cancel_requested,
                   cancelled_in, ncycles, fail_run, last_clears, pre>>
    /\ UNCHANGED <<bvars, lvars, clock>>

\* initial_fetch of lifespan, then update_token_data up to its first await:
\* tokens0 is what the initial fetch obtained at time t0.
SInit(tokens0, t0) ==
    /\ token_cache = tokens0
    /\ last_update = IF tokens0 = <<>> THEN NoTime ELSE t0
    /\ cache = IF tokens0 = <<>>
               THEN EmptyCache
               ELSE [timestamp |-> t0, mint_mapping |-> mapping_of(tokens0, 1),
                     tokens |-> tokens0]
    /\ cache_file = IF tokens0 = <<>> THEN NoFile ELSE cache
    /\ data_file = IF tokens0 = <<>>
                   THEN NoFile
                   ELSE [last_updated |-> t0, tokens |-> tokens0]
    /\ consecutive_errors = 0
    /\ spc = "fetching"
    /\ market_data = <<>>
    /\ pending = NoPending
    /\ cancel_requested = FALSE
    /\ cancelled_in = None
    /\ lpc = "running"
    /\ ncycles = 1
    /\ fail_run = 0
    /\ last_clears = 0
    /\ pre = [cache |-> cache, token_cache |-> token_cache, last_update |-> last_update]

(***************************************************************************)
(* data_parser.py : make_request_with_retry and _find_mint_address, step   *)
(* by step                                                                 *)
(***************************************************************************)
\* EnhancedRateLimiter(max_retries=3), self.retry_delays = [1, 5, 15]
max_retries == 3
retry_delays == <<1, 5, 15>>

\* What one session.get ends in: a status, asyncio.TimeoutError, another exception.
ProviderOutcomes ==
    { Status(200), Status(429), Status(401), Status(500), Timeout, ConnError }

\* The lists of items a 200 body may carry.
ItemLists ==
    { <<>>,
      << Item(tFOO, tFoo, "FooMint") >>,
      << Item(tSOL, tSolana, "OtherMint"), Item(tfoo, tFoo, "FooMint") >>,
      << Item(tFOO, tFoo, None) >>,
      << Item(NoText, tFoo, "FooMint") >>,
      << Item(tSOL, NoText, "OtherMint") >> }

\* The JSON bodies of a 200.
Bodies ==
    {ReqBody(TRUE, items) : items \in ItemLists} \cup {ReqBody(FALSE, <<>>), ReqMalformed}

\* make_request_with_retry after the answer o (with JSON body `body`) to its
\* request number retry_count + 1: return a value, or sleep and call itself again.
make_request_retry_unbounded(o, body, n) ==
    IF o.kind # "status" THEN [next |-> "return", value |-> ReqNone, delay |-> 0]
    ELSE IF o.code = 200 THEN [next |-> "return", value |-> body, delay |-> 0]
    ELSE IF o.code = 429
         THEN [next |-> "retry", value |-> ReqNone,
               delay |-> retry_delays[IF n < Len(retry_delays) THEN n + 1 ELSE Len(retry_delays)]]
    ELSE IF o.code = 401 THEN [next |-> "return", value |-> ReqError, delay |-> 0]
    ELSE [next |-> "return", value |-> ReqNone, delay |-> 0]

make_request_retry_any_failure(o, body, n) ==
    IF o.kind = "status" /\ o.code = 200
    THEN [next |-> "return", value |-> body, delay |-> 0]
    ELSE IF n < max_retries
         THEN [next |-> "retry", value |-> ReqNone, delay |-> retry_delays[n + 1]]
         ELSE [next |-> "return", value |-> ReqNone, delay |-> 0]

make_request_with_retry(o, body, n) ==
    IF o.kind # "status" THEN [next |-> "return", value |-> ReqNone, delay |-> 0]
    ELSE IF o.code = 200 THEN [next |-> "return", value |-> body, delay |-> 0]
    ELSE IF o.code = 429
         THEN IF n < max_retries
              THEN [next |-> "retry", value |-> ReqNone, delay |-> retry_delays[n + 1]]
              ELSE [next |-> "return", value |-> ReqNone, delay |-> 0]
    ELSE IF o.code = 401 THEN [next |-> "return", value |-> ReqError, delay |-> 0]
    ELSE [next |-> "return", value |-> ReqNone, delay |-> 0]

\* Method 1: if symbol in self.known_token_addresses
first_step_table_last(symbol) == "by_symbol"

first_step(symbol) ==
    IF symbol \in DOMAIN known_token_addresses THEN "done" ELSE "by_symbol"

\* if not self.birdeye_api_key: return None  (return [] in _get_popular_tokens)
sends_request_without_key(key) == TRUE

sends_request(key) == key

NetworkSteps == {"by_symbol", "by_name", "popular"}

\* The step after a search that found nothing: if name: method 3, else method 4.
step_after(step, name) ==
    IF step = "by_symbol" /\ truthy(name) THEN "by_name" ELSE "popular"

\* The call's request bookkeeping is that of no call.
NoRequest ==
    /\ rpc' = "idle"
    /\ retry_count' = 0
    /\ statuses' = <<>>
    /\ slept' = <<>>
    /\ r_result' = ReqNone

\* if mint_address: return mint_address
found_never(m) == FALSE

found(m) == m # None

\* The current step's search function evaluates the data it got and returns to
\* _find_mint_address, which returns, raises or goes on to its next step.
Advance(data) ==
    /\ NoRequest
    /\ IF cpc = "popular"
       THEN /\ c_result' = popular_match(get_popular_tokens(c_key, data), 1, c_symbol, c_name)
            /\ cpc' = "done"
       ELSE LET m == IF cpc = "by_symbol"
                     THEN search_birdeye_by_symbol(c_symbol, c_key, data)
                     ELSE search_birdeye_by_name(c_name, c_key, data)
            IN  IF found(m)
                THEN /\ c_result' = Return(m)
                     /\ cpc' = "done"
                ELSE /\ cpc' = step_after(cpc, c_name)
                     /\ UNCHANGED c_result

\* _find_mint_address is called: method 1.
FindMintAddress ==
    /\ cpc = "start"
    /\ cpc' = first_step(c_symbol)
    /\ IF first_step(c_symbol) = "done"
       THEN c_result' = Return(known_token_addresses[c_symbol])
       ELSE UNCHANGED c_result
    /\ UNCHANGED <<c_symbol, c_name, c_key, rpc, retry_count, statuses, slept, r_result,
                   nacquires, nrequests>>
    /\ UNCHANGED <<requests, lock, parser_of, tpc, wake_at, recorded, provider_log, pvars>>
    /\ UNCHANGED <<bvars, svars, clock>>

\* A search function is called: without a key it returns at once, with one it
\* calls make_request_with_retry.
CallStep ==
    /\ cpc \in NetworkSteps
    /\ rpc = "idle"
    /\ IF sends_request(c_key)
       THEN /\ rpc' = "acquire"
            /\ UNCHANGED <<cpc, c_result, retry_count, statuses, slept, r_result>>
       ELSE Advance(ReqNone)
    /\ UNCHANGED <<c_symbol, c_name, c_key, nacquires, nrequests>>
    /\ UNCHANGED <<requests, lock, parser_of, tpc, wake_at, recorded, provider_log, pvars>>
    /\ UNCHANGED <<bvars, svars, clock>>

\* await self.acquire() has returned.
Acquire ==
    /\ rpc = "acquire"
    /\ nacquires' = nacquires + 1
    /\ rpc' = "get"
    /\ UNCHANGED <<c_symbol, c_name, c_key, cpc, retry_count, statuses, slept, r_result,
                   c_result, nrequests>>
    /\ UNCHANGED <<requests, lock, parser_of, tpc, wake_at, recorded, provider_log, pvars>>
    /\ UNCHANGED <<bvars, svars, clock>>

\* session.get(...) is answered.
Get(o, body) ==
    /\ rpc = "get"
    /\ nrequests' = nrequests + 1
    /\ statuses' = Append(statuses, o)
    /\ LET step == make_request_with_retry(o, body, retry_count)
       IN  IF step.next = "retry"
           THEN /\ rpc' = "sleep"
                /\ slept' = Append(slept, step.delay)
                /\ UNCHANGED r_result
           ELSE /\ rpc' = "returned"
                /\ r_result' = step.value
                /\ UNCHANGED slept
    /\ UNCHANGED <<c_symbol, c_name, c_key, cpc, retry_count, c_result, nacquires>>
    /\ UNCHANGED <<requests, lock, parser_of, tpc, wake_at, recorded, provider_log, pvars>>
    /\ UNCHANGED <<bvars, svars, clock>>

\* asyncio.sleep(delay) is over: make_request_with_retry(..., retry_count + 1)
BackoffDone ==
    /\ rpc = "sleep"
    /\ retry_count' = retry_count + 1
    /\ rpc' = "acquire"
    /\ UNCHANGED <<c_symbol, c_name, c_key, cpc, statuses, slept, r_result, c_result,
                   nacquires, nrequests>>
    /\ UNCHANGED <<requests, lock, parser_of, tpc, wake_at, recorded, provider_log, pvars>>
    /\ UNCHANGED <<bvars, svars, clock>>

\* make_request_with_retry has returned to the search function.
StepReturn ==
    /\ rpc = "returned"
    /\ Advance(r_result)
    /\ UNCHANGED <<c_symbol, c_name, c_key, nacquires, nrequests>>
    /\ UNCHANGED <<requests, lock, parser_of, tpc, wake_at, recorded, provider_log, pvars>>
    /\ UNCHANGED <<bvars, svars, clock>>

\* A call _find_mint_address(symbol, name) about to start.
CInit(symbol, name, key) ==
    /\ c_symbol = symbol
    /\ c_name = name
    /\ c_key = key
    /\ cpc = "start"
    /\ rpc = "idle"
    /\ retry_count = 0
    /\ statuses = <<>>
    /\ slept = <<>>
    /\ r_result = ReqNone
    /\ c_result = NoValue
    /\ nacquires = 0
    /\ nrequests = 0

tBAR == <<"B", "A", "R">>
tFoo_Token == <<"F", "O", "O", " ", "c", "o", "i", "n">>

\* The symbols (upper case, as _get_mint_addresses_from_birdeye passes them)
\* and names the call is made with.
CascadeSymbols == {tSOL, tFOO, tBAR}
CascadeNames == {tSolana, tFoo, tFoo_Token, <<>>, NoText}

(***************************************************************************)
(* coingecko_client.py : get_solana_tokens; data_parser.py : the cache of  *)
(* a DataParser and get_top_tokens, call by call                           *)
(***************************************************************************)
\* What session.get(url, params) may bring: an exception of the client (network
\* error, timeout), or a response with a status and a body.  The body is JSON
\* of some type, or text that is not JSON.
Resp(kind, code, json, entries) ==
    [kind |-> kind, code |-> code, json |-> json, entries |-> entries]

NetworkError == Resp("error", 0, "text", <<>>)
HttpStatus(code) == Resp("response", code, "text", <<>>)
NotJson == Resp("response", 200, "text", <<>>)
JsonNull == Resp("response", 200, "null", <<>>)
JsonObject == Resp("response", 200, "object", <<>>)
JsonList(entries) == Resp("response", 200, "list", entries)

\* A value get_solana_tokens returns: a list of entries, or whatever else the
\* body decoded to.
Data(json, entries) == [json |-> json, entries |-> entries]
EmptyResult == Data("list", <<>>)

\* get_solana_tokens: [] on an exception of the client, on a status other than
\* 200, on a body response.json() rejects and on one len() rejects; any other
\* decoded body is returned as it is.
get_solana_tokens(resp) ==
    IF resp.kind = "error" THEN EmptyResult
    ELSE IF resp.code # 200 THEN EmptyResult
    ELSE IF resp.json = "text" THEN EmptyResult
    ELSE IF resp.json = "null" THEN EmptyResult
    ELSE Data(resp.json, resp.entries)

\* The body is a list of market entries.
WellFormed(resp) == resp.kind = "response" /\ resp.code = 200 /\ resp.json = "list"

\* get_top_tokens from the answer of get_solana_tokens to the close of the
\* client session.  Iterating over a body that is not a list of entries raises
\* in _get_mint_addresses_from_birdeye, outside every try block.
fetch_top_tokens(data, be) ==
    IF data = EmptyResult
    THEN [kind |-> "tokens", tokens |-> <<>>, write |-> FALSE]
    ELSE IF data.json # "list"
    THEN [kind |-> "raise", tokens |-> <<>>, write |-> FALSE]
    ELSE LET r == resolve_and_parse(data.entries, be)
         IN  [kind |-> r.kind, tokens |-> r.tokens, write |-> r.kind = "tokens"]

\* self.cache = {'timestamp': now, 'mint_mapping': {...}, 'tokens': tokens}
cache_entry_first_only(tokens, now) ==
    [timestamp |-> now,
     mint_mapping |-> mapping_of(tokens, 1),
     tokens |-> IF Len(tokens) > 1 THEN << tokens[1] >> ELSE tokens]

cache_entry(tokens, now) ==
    [timestamp |-> now,
     mint_mapping |-> mapping_of(tokens, 1),
     tokens |-> tokens]

\* _load_cache: the pickled cache when the file exists, can be read and is
\* younger than cache_ttl; the empty cache otherwise.
load_cache_any_age(file, readable, now) ==
    IF file = NoFile THEN Return(EmptyCache)
    ELSE IF ~readable \/ file = Corrupt THEN Return(EmptyCache)
    ELSE Return(file)

load_cache(file, readable, now) ==
    IF file = NoFile THEN Return(EmptyCache)
    ELSE IF ~readable \/ file = Corrupt THEN Return(EmptyCache)
    ELSE IF now - file.timestamp < cache_ttl THEN Return(file)
    ELSE Return(EmptyCache)

\* _save_cache: an exception of open() or pickle.dump() is logged.
save_cache_unguarded(file, content, disk) ==
    [file |-> file_after_write(file, content, disk), raised |-> disk # "ok"]

save_cache(file, content, disk) ==
    [file |-> file_after_write(file, content, disk), raised |-> FALSE]

\* clear_cache: the cache is reset first, then the file is removed if it exists;
\* an exception of os.remove is logged.
clear_cache_keeps_on_failure(c, file, disk) ==
    [cache |-> IF file # NoFile /\ disk # "ok" THEN c ELSE EmptyCache,
     file |-> file_after_remove(file, disk), raised |-> FALSE]

clear_cache(c, file, disk) ==
    [cache |-> EmptyCache, file |-> file_after_remove(file, disk), raised |-> FALSE]

\* The largest limit a call is made with, and how often time is let pass.
MaxLimit == 2
MaxElapses == 2

Min(a, b) == IF a < b THEN a ELSE b

tbar == <<"b", "a", "r">>
tBar == <<"B", "a", "r">>

\* CoinGecko's ranking of the category, by market cap, as it may stand.
Listings ==
    { << Entry(tsol, tSolana, 5, 2), Entry(tfoo, tFoo, 3, 1), Entry(tbar, tBar, 2, 1) >>,
      << Entry(tfoo, NoText, 3, 1), Entry(tsol, tSolana, 5, 2) >> }

\* CoinGecko's answers to a request with per_page = n: page 1 of the ranking
\* holds at most n entries.
CoinGeckoResponses(per_page) ==
    { NetworkError, HttpStatus(500), NotJson, JsonNull, JsonObject }
    \cup { JsonList(SubSeq(l, 1, Min(per_page, Len(l)))) : l \in Listings }

\* The calls the program makes: get_top_tokens(limit) by lifespan, and
\* get_top_tokens(limit, force_refresh=True) by update_token_data and
\* refresh_cache.
CallFlags ==
    { [use_cache |-> TRUE, force_refresh |-> FALSE],
      [use_cache |-> TRUE, force_refresh |-> TRUE] }

AllResponses == UNION { CoinGeckoResponses(n) : n \in 1..MaxLimit }

NoCall == [kind |-> "none", tokens |-> <<>>]
NoOp == [name |-> "none", raised |-> FALSE, disk |-> "ok"]

\* DataParser(): self.cache = self._load_cache()
Construct(readable) ==
    /\ g_pc = "idle"
    /\ LET r == load_cache(cache_file, readable, clock)
       IN  /\ cache' = IF r.kind = "return" THEN r.value ELSE cache
           /\ g_op' = [name |-> "construct", raised |-> r.kind = "raise",
                       disk |-> IF readable THEN "ok" ELSE "unreadable"]
    /\ g_written' = NoValue
    /\ g_ret' = NoCall
    /\ g_args' = NoValue
    /\ g_pre' = IF cache_file \in {NoFile, Corrupt} THEN NoTime
                ELSE clock - cache_file.timestamp
    /\ g_response' = NoValue
    /\ g_market' = NoValue
    /\ g_provider_calls' = 0
    /\ UNCHANGED <<g_pc, nelapses, h_items, h_result, g_env>>
    /\ UNCHANGED <<token_cache, last_update, cache_file, data_file, consecutive_errors,
                   spc, market_data, pending, cancel_requested, cancelled_in, lpc,
                   ncycles, fail_run, last_clears, pre>>
    /\ UNCHANGED <<c_symbol, c_name, c_key, cpc, rpc, retry_count, statuses, slept,
                   r_result, c_result, nacquires, nrequests>>
    /\ UNCHANGED <<requests, lock, parser_of, tpc, wake_at, recorded, provider_log>>
    /\ UNCHANGED <<bvars, clock>>

\* get_top_tokens(limit, use_cache, force_refresh) up to its first await: a
\* valid cache is returned at once, otherwise CoinGecko is asked.
GetTopTokens(limit, use_cache, force_refresh) ==
    /\ g_pc = "idle"
    /\ g_args' = [limit |-> limit, use_cache |-> use_cache, force_refresh |-> force_refresh,
                  via |-> "get_top_tokens"]
    /\ g_pre' = clock - cache.timestamp
    /\ g_response' = NoValue
    /\ g_market' = NoValue
    /\ g_provider_calls' = 0
    /\ IF use_cache /\ is_cache_valid(cache, clock) /\ ~force_refresh
       THEN /\ g_ret' = [kind |-> "tokens", tokens |-> cache.tokens]
            /\ g_op' = [name |-> "get_top_tokens", raised |-> FALSE, disk |-> "ok"]
            /\ UNCHANGED g_pc
       ELSE /\ g_ret' = NoCall
            /\ g_pc' = "fetching"
            /\ g_op' = NoOp
    /\ UNCHANGED <<g_written, nelapses, h_items, h_result, g_env>>
    /\ UNCHANGED <<token_cache, last_update, cache, cache_file, data_file,
                   consecutive_errors, spc, market_data, pending, cancel_requested,
                   cancelled_in, lpc, ncycles, fail_run, last_clears, pre>>
    /\ UNCHANGED <<c_symbol, c_name, c_key, cpc, rpc, retry_count, statuses, slept,
                   r_result, c_result, nacquires, nrequests>>
    /\ UNCHANGED <<requests, lock, parser_of, tpc, wake_at, recorded, provider_log>>
    /\ UNCHANGED <<bvars, clock>>

\* CoinGecko answers, the addresses are resolved, the entries parsed, the cache
\* is replaced and saved, and get_top_tokens returns or raises.
Fetched(resp, be, disk) ==
    /\ g_pc = "fetching"
    /\ resp \in CoinGeckoResponses(g_args.limit)
    /\ g_pc' = "idle"
    /\ g_response' = resp
    /\ g_market' = get_solana_tokens(resp)
    /\ g_provider_calls' = g_provider_calls + 1
    /\ LET r == fetch_top_tokens(get_solana_tokens(resp), be)
           c == cache_entry(r.tokens, clock)
           saved == save_cache(cache_file, c, disk)
       IN  IF r.write /\ g_args.use_cache
           THEN /\ cache' = c
                /\ cache_file' = saved.file
                /\ g_written' = [kind |-> "tokens", tokens |-> r.tokens, at |-> clock]
                /\ g_ret' = IF saved.raised THEN [kind |-> "raise", tokens |-> <<>>]
                                            ELSE [kind |-> r.kind, tokens |-> r.tokens]
                /\ g_op' = [name |-> "get_top_tokens", raised |-> saved.raised,
                            disk |-> disk]
           ELSE /\ g_ret' = [kind |-> r.kind, tokens |-> r.tokens]
                /\ g_op' = [name |-> "get_top_tokens", raised |-> r.kind = "raise",
                            disk |-> "ok"]
                /\ UNCHANGED <<cache, cache_file, g_written>>
    /\ UNCHANGED <<g_args, g_pre, nelapses, h_items, h_result, g_env>>
    /\ UNCHANGED <<token_cache, last_update, data_file, consecutive_errors, spc,
                   market_data, pending, cancel_requested, cancelled_in, lpc, ncycles,
                   fail_run, last_clears, pre>>
    /\ UNCHANGED <<c_symbol, c_name, c_key, cpc, rpc, retry_count, statuses, slept,
                   r_result, c_result, nacquires, nrequests>>
    /\ UNCHANGED <<requests, lock, parser_of, tpc, wake_at, recorded, provider_log>>
    /\ UNCHANGED <<bvars, clock>>

\* parser.clear_cache()
ClearCache(disk) ==
    /\ g_pc = "idle"
    /\ LET r == clear_cache(cache, cache_file, disk)
       IN  /\ cache' = r.cache
           /\ cache_file' = r.file
           /\ g_op' = [name |-> "clear_cache", raised |-> r.raised, disk |-> disk]
    /\ g_written' = NoValue
    /\ g_ret' = NoCall
    /\ g_args' = NoValue
    /\ g_pre' = NoTime
    /\ g_response' = NoValue
    /\ g_market' = NoValue
    /\ g_provider_calls' = 0
    /\ UNCHANGED <<g_pc, nelapses, h_items, h_result, g_env>>
    /\ UNCHANGED <<token_cache, last_update, data_file, consecutive_errors, spc,
                   market_data, pending, cancel_requested, cancelled_in, lpc, ncycles,
                   fail_run, last_clears, pre>>
    /\ UNCHANGED <<c_symbol, c_name, c_key, cpc, rpc, retry_count, statuses, slept,
                   r_result, c_result, nacquires, nrequests>>
    /\ UNCHANGED <<requests, lock, parser_of, tpc, wake_at, recorded, provider_log>>
    /\ UNCHANGED <<bvars, clock>>

\* refresh_cache(limit) up to its first await: self.clear_cache(), then
\* get_top_tokens(limit=limit, use_cache=True, force_refresh=True), which asks
\* CoinGecko whatever the cache holds.
RefreshCache(limit, disk) ==
    /\ g_pc = "idle"
    /\ LET r == clear_cache(cache, cache_file, disk)
       IN  /\ cache' = r.cache
           /\ cache_file' = r.file
           /\ g_pre' = clock - r.cache.timestamp
    /\ g_args' = [limit |-> limit, use_cache |-> TRUE, force_refresh |-> TRUE,
                  via |-> "refresh_cache"]
    /\ g_pc' = "fetching"
    /\ g_ret' = NoCall
    /\ g_op' = NoOp
    /\ g_response' = NoValue
    /\ g_market' = NoValue
    /\ g_provider_calls' = 0
    /\ UNCHANGED <<g_written, nelapses, h_items, h_result, g_env>>
    /\ UNCHANGED <<token_cache, last_update, data_file, consecutive_errors, spc,
                   market_data, pending, cancel_requested, cancelled_in, lpc, ncycles,
                   fail_run, last_clears, pre>>
    /\ UNCHANGED <<c_symbol, c_name, c_key, cpc, rpc, retry_count, statuses, slept,
                   r_result, c_result, nacquires, nrequests>>
    /\ UNCHANGED <<requests, lock, parser_of, tpc, wake_at, recorded, provider_log>>
    /\ UNCHANGED <<bvars, clock>>

\* Time passes between two operations on the parser.
Elapse(d) ==
    /\ g_pc = "idle"
    /\ nelapses < MaxElapses
    /\ nelapses' = nelapses + 1
    /\ clock' = clock + d
    /\ UNCHANGED <<g_pc, g_args, g_pre, g_response, g_market, g_ret, g_provider_calls,
                   g_written, g_op, h_items, h_result, g_env>>
    /\ UNCHANGED <<c_symbol, c_name, c_key, cpc, rpc, retry_count, statuses, slept,
                   r_result, c_result, nacquires, nrequests>>
    /\ UNCHANGED <<requests, lock, parser_of, tpc, wake_at, recorded, provider_log>>
    /\ UNCHANGED <<bvars, svars>>

\* A parser no call was made on yet.
PInit ==
    /\ g_pc = "idle"
    /\ g_args = NoValue
    /\ g_pre = NoTime
    /\ g_response = NoValue
    /\ g_market = NoValue
    /\ g_ret = NoCall
    /\ g_provider_calls = 0
    /\ g_written = NoValue
    /\ g_op = NoOp
    /\ nelapses = 0
    /\ g_env = NoValue

(***************************************************************************)
(* data_parser.py : _process_holder_data                                   *)
(***************************************************************************)
\* The quotient of two integers, in lowest terms.
RECURSIVE GCD(_, _)
GCD(a, b) == IF b = 0 THEN a ELSE GCD(b, a % b)

Ratio(a, b) == LET g == GCD(a, b) IN [num |-> a \div g, den |-> b \div g]
Zero == [num |-> 0, den |-> 1]

\* total_supply += holder_data["ui_amount"], item by item
RECURSIVE total_of(_, _)
total_of(items, i) == IF i > Len(items) THEN 0 ELSE items[i] + total_of(items, i + 1)

\* max([h["ui_amount"] for h in holders])
RECURSIVE max_of(_, _)
max_of(items, i) ==
    IF i = Len(items) THEN items[i]
    ELSE LET m == max_of(items, i + 1) IN IF items[i] > m THEN items[i] ELSE m

\* holder["percentage"] = (holder["ui_amount"] / total_supply) * 100, or 0
percentage_of_largest(ui_amount, total_supply, largest) ==
    IF total_supply > 0 THEN Ratio(ui_amount * 100, largest) ELSE Zero

percentage(ui_amount, total_supply, largest) ==
    IF total_supply > 0 THEN Ratio(ui_amount * 100, total_supply) ELSE Zero

\* _process_holder_data(items), an item being its ui_amount
process_holder_data(items) ==
    IF items = <<>>
    THEN [holders |-> <<>>, stats |-> EmptyDict]
    ELSE LET total_supply == total_of(items, 1)
             largest == max_of(items, 1)
         IN  [holders |-> [i \in 1..Len(items) |->
                              [ui_amount |-> items[i],
                               percentage |-> percentage(items[i], total_supply, largest)]],
              stats |-> [kind |-> "stats",
                         total_holders |-> Len(items),
                         total_supply |-> total_supply,
                         largest_balance |-> largest,
                         average_balance |-> Ratio(total_supply, Len(items))]]

\* The longest list of holders, and the balances they hold.
MaxHolders == 3
Balances == {0, 25, 50, 100}

HolderLists == UNION { [1..n -> Balances] : n \in 0..MaxHolders }

ProcessHolderData ==
    /\ h_result = NoValue
    /\ h_result' = process_holder_data(h_items)
    /\ UNCHANGED <<g_pc, g_args, g_pre, g_response, g_market, g_ret, g_provider_calls,
                   g_written, g_op, nelapses, h_items, g_env>>
    /\ UNCHANGED <<c_symbol, c_name, c_key, cpc, rpc, retry_count, statuses, slept,
                   r_result, c_result, nacquires, nrequests>>
    /\ UNCHANGED <<requests, lock, parser_of, tpc, wake_at, recorded, provider_log>>
    /\ UNCHANGED <<bvars, svars, clock>>

\* A call _process_holder_data(items) about to start.
HInit(items) ==
    /\ h_items = items
    /\ h_result = NoValue

(***************************************************************************)
(* Specifications                                                          *)
(***************************************************************************)
\* The process starts well after the epoch: an empty cache (timestamp 0) is expired.
StartTime == cache_ttl + cache_ttl

NoKey == BirdEye(FALSE, ReqNone, ReqNone, ReqNone)

\* What initial_fetch may have obtained before the task starts.
InitialFetches ==
    { <<>>, resolve_and_parse(<< Entry(tsol, tSolana, 5, 2) >>, NoKey).tokens }

AllOnOneParser == [t \in Tasks |-> "p0"]
OneParserEach == [t \in Tasks |-> IF t = "t0" THEN "p0" ELSE IF t = "t1" THEN "p1" ELSE "p2"]

\* ---- The broadcaster: register / unregister calls and broadcasts, interleaved.
BroadcastCall ==
    /\ \E tokens \in SampleSnapshots : BroadcastBegin(tokens, UPDATE_INTERVAL)
    /\ UNCHANGED <<lvars, svars, clock>>

BroadcastReturn ==
    /\ BroadcastFinish
    /\ UNCHANGED <<lvars, svars, clock>>

InitBroadcast ==
    /\ BInit
    /\ LInit /\ parser_of = AllOnOneParser
    /\ CInit(tSOL, tSolana, FALSE)
    /\ PInit /\ HInit(<<>>)
    /\ SInit(<<>>, StartTime)
    /\ clock = StartTime

NextBroadcast ==
    \/ \E url \in Urls : register_webhook(url)
    \/ \E url \in Urls : unregister_webhook(url)
    \/ BroadcastCall
    \/ \E u \in Urls : PostAttempt(u)
    \/ \E u \in Urls : Response(u)
    \/ BroadcastReturn

SpecBroadcast == InitBroadcast /\ [][NextBroadcast]_vars

\* ---- One EnhancedRateLimiter and the tasks that call its acquire() concurrently.
InitLimiter ==
    /\ BInit
    /\ LInit /\ parser_of = AllOnOneParser
    /\ CInit(tSOL, tSolana, FALSE)
    /\ PInit /\ HInit(<<>>)
    /\ SInit(<<>>, 0)
    /\ clock = 0

NextLimiter ==
    \/ \E t \in Tasks : AcquireCall(t)
    \/ \E t \in Tasks : EnterLock(t)
    \/ \E t \in Tasks : WakeUp(t)
    \/ Tick

SpecLimiter == InitLimiter /\ [][NextLimiter]_vars

\* ---- The provider as the program calls it: the refresh task t0 through the
\* DataParser of update_token_data, and the holder requests t1, t2, each through
\* the DataParser its handler builds.
RefreshLookup ==
    /\ Len(provider_log) < MaxProviderRequests
    /\ AcquireCall("t0")

InitProvider ==
    /\ BInit
    /\ LInit /\ parser_of = OneParserEach
    /\ CInit(tSOL, tSolana, FALSE)
    /\ PInit /\ HInit(<<>>)
    /\ SInit(<<>>, 0)
    /\ clock = 0

NextProvider ==
    \/ RefreshLookup
    \/ \E t \in Tasks \ {"t0"} : GetTokenHolders(t)
    \/ \E t \in Tasks : EnterLock(t)
    \/ \E t \in Tasks : WakeUp(t)
    \/ Tick

SpecProvider == InitProvider /\ [][NextProvider]_vars

\* ---- One _find_mint_address call, for every symbol, name and credential and
\* every answer of the provider to each of its requests.
InitCascade ==
    /\ BInit
    /\ LInit /\ parser_of = AllOnOneParser
    /\ SInit(<<>>, 0)
    /\ clock = 0
    /\ \E symbol \in CascadeSymbols \cup DOMAIN known_token_addresses,
          name \in CascadeNames, key \in BOOLEAN :
          CInit(symbol, name, key)
    /\ PInit /\ HInit(<<>>)

NextCascade ==
    \/ FindMintAddress
    \/ CallStep
    \/ Acquire
    \/ \E o \in ProviderOutcomes, body \in Bodies : Get(o, body)
    \/ BackoffDone
    \/ StepReturn

SpecCascade == InitCascade /\ [][NextCascade]_vars

\* ---- One DataParser over its life: construction (a process start), calls of
\* get_top_tokens with every argument and every answer of the providers and the
\* disk, clear_cache, refresh_cache, and time passing.
InitParser ==
    /\ BInit
    /\ LInit /\ parser_of = AllOnOneParser
    /\ CInit(tSOL, tSolana, FALSE)
    /\ PInit /\ HInit(<<>>)
    /\ SInit(<<>>, StartTime)
    /\ clock = StartTime

NextParser ==
    \/ \E readable \in BOOLEAN : Construct(readable)
    \/ \E limit \in 1..MaxLimit, flags \in CallFlags :
          GetTopTokens(limit, flags.use_cache, flags.force_refresh)
    \/ \E resp \in AllResponses, be \in BirdEyeEnvs, disk \in DiskOutcomes :
          Fetched(resp, be, disk)
    \/ \E disk \in DiskOutcomes : ClearCache(disk)
    \/ \E limit \in 1..MaxLimit, disk \in DiskOutcomes : RefreshCache(limit, disk)
    \/ \E d \in {1, cache_ttl - 1} : Elapse(d)

SpecParser == InitParser /\ [][NextParser]_vars

\* ---- One _process_holder_data call, for every list of balances.
InitHolders ==
    /\ BInit
    /\ LInit /\ parser_of = AllOnOneParser
    /\ CInit(tSOL, tSolana, FALSE)
    /\ PInit
    /\ \E items \in HolderLists : HInit(items)
    /\ SInit(<<>>, 0)
    /\ clock = 0

NextHolders == ProcessHolderData

SpecHolders == InitHolders /\ [][NextHolders]_vars

\* ---- The refresh scheduler: the cycles of update_token_data with their
\* broadcasts, one subscriber that may register, and lifespan's shutdown.
Subscribe ==
    /\ registered_webhooks = {}
    /\ register_webhook("https://a")

InitScheduler ==
    /\ BInit
    /\ LInit /\ parser_of = AllOnOneParser
    /\ CInit(tSOL, tSolana, FALSE)
    /\ PInit /\ HInit(<<>>)
    /\ \E tokens0 \in InitialFetches : SInit(tokens0, StartTime)
    /\ clock = StartTime

TaskStep ==
    \/ \E md \in MarketResponses : MarketData(md)
    \/ \E be \in BirdEyeEnvs : Resolve(be)
    \/ \E disk \in DiskOutcomes : Commit(disk)
    \/ \E u \in Urls : PostAttempt(u)
    \/ \E u \in Urls : Response(u)
    \/ CycleBroadcastFinish
    \/ SleepDone

NextScheduler ==
    \/ TaskStep
    \/ Subscribe
    \/ Cancel
    \/ DeliverCancel
    \/ LifespanStop

\* The event loop resumes a task that can run, and the providers, the disk and
\* the subscribers answer (every request carries a timeout).
SpecScheduler ==
    /\ InitScheduler
    /\ [][NextScheduler]_vars
    /\ WF_vars(TaskStep)
    /\ WF_vars(DeliverCancel)
    /\ WF_vars(LifespanStop)

(***************************************************************************)
(* Claims about the broadcaster                                            *)
(***************************************************************************)
\* A broadcast over a non-empty subscriber set has returned.
BroadcastReturned == bpc = "idle" /\ bret # NoValue /\ targets # {}

AlwaysFails(scr) == \A i \in 1..3 : Failing(scr[i])
AlwaysSucceeds(scr) == \A i \in 1..3 : ~Failing(scr[i])

\* C1: a subscriber whose every attempt fails has received exactly 3 POSTs when its
\* delivery is counted as failed, and a broadcast to 3 subscribers of which one
\* always fails and two always succeed returns {sent: 2, failed: 1}.
C1_FailingSubscriberAttemptedThreeTimes ==
    BroadcastReturned =>
        /\ \A u \in targets :
               (AlwaysFails(script[u]) /\ dresult[u] # "True") => posts[u] = 3
        /\ ( /\ Cardinality(targets) = 3
             /\ Cardinality({u \in targets : AlwaysFails(script[u])}) = 1
             /\ Cardinality({u \in targets : AlwaysSucceeds(script[u])}) = 2 )
           => (bret.kind = "return" /\ bret.sent = 2 /\ bret.failed = 1)

\* C2: a subscriber whose first attempt fails and whose second or third attempt
\* would be answered 200/201/202 is counted in sent, not in failed.
C2_FailedAttemptIsRetried ==
    BroadcastReturned =>
        \A u \in targets :
            ( /\ Failing(script[u][1])
              /\ (~Failing(script[u][2]) \/ ~Failing(script[u][3])) )
            => dresult[u] = "True"

\* C3: broadcast_update returns (never raises) {sent, failed}, where sent is the
\* number of targeted subscribers whose last POST was answered 200/201/202 and
\* failed is the number of all other targeted subscribers.
EndedInSuccess(u) == posts[u] >= 1 /\ ~Failing(script[u][posts[u]])

C3_BroadcastCountsAndNeverRaises ==
    /\ bret # NoValue => bret.kind = "return"
    /\ BroadcastReturned =>
          /\ bret.sent = Cardinality({u \in targets : EndedInSuccess(u)})
          /\ bret.failed = Cardinality(targets) - bret.sent

\* A returned broadcast with a success, a failing status and a timeout among its
\* three subscribers.
C3_Witness ==
    /\ BroadcastReturned
    /\ Cardinality(targets) = 3
    /\ \E u, v, w \in targets :
          /\ script[u][1] = Status(201)
          /\ script[v][1] = Status(500)
          /\ script[w][1] = Timeout
    /\ bret.sent = 1 /\ bret.failed = 2



(***************************************************************************)
(* Claims about the rate limiter                                           *)
(***************************************************************************)
\* The number of timestamps of log in the window of time_window seconds ending at t.
InWindowCount(log, t) ==
    Cardinality({i \in 1..Len(log) : t - time_window < log[i] /\ log[i] <= t})

WindowRespected(log) ==
    \A t \in 0..(MaxTime + time_window) : InWindowCount(log, t) <= max_requests

\* C4: whatever the sequence and interleaving of acquire() calls on one limiter, no
\* window of time_window seconds holds more than max_requests of the timestamps
\* the limiter recorded.
C4_WindowNeverExceeded == WindowRespected(recorded["p0"])

\* The limiter has recorded more than max_requests timestamps, some window is
\* exactly full, and a caller is waiting for the lock.
C4_Witness ==
    /\ Len(recorded["p0"]) > max_requests
    /\ \E i \in 1..Len(recorded["p0"]) :
          InWindowCount(recorded["p0"], recorded["p0"][i]) = max_requests
    /\ \E t \in Tasks : tpc[t] = "lock"

\* C5: the requests that reach the BirdEye provider, from the refresh task and
\* from the holder lookups together, never exceed max_requests in any window of
\* time_window seconds.
C5_ProviderWindowNeverExceeded == WindowRespected(provider_log)

(***************************************************************************)
(* Claims about the scheduler                                              *)
(***************************************************************************)
\* C6: the counter is the number of failed cycles since the last successful one
\* modulo 3; the last finished cycle called clear_cache (once) exactly if it was
\* the 3rd, 6th, ... failure in a row, and the clear leaves the parser's cache empty.
C6_ClearOnThirdConsecutiveFailure ==
    /\ consecutive_errors = fail_run % max_consecutive_errors
    /\ last_clears = IF fail_run > 0 /\ fail_run % max_consecutive_errors = 0
                     THEN 1 ELSE 0
    /\ (last_clears = 1 /\ spc = "sleep") => cache = EmptyCache

\* The third failure in a row has just cleared the cache and reset the counter.
C6_Witness ==
    /\ spc = "sleep"
    /\ fail_run = max_consecutive_errors
    /\ last_clears = 1
    /\ consecutive_errors = 0
    /\ pre.cache # EmptyCache
    /\ cache = EmptyCache

\* C7: from the threshold clear until the next successful cycle, readers are
\* shown an empty snapshot: no tokens and no timestamp.
C7_ReadersSeeClearedCache ==
    fail_run >= max_consecutive_errors =>
        /\ get_tokens_json.tokens = <<>>
        /\ get_tokens_json.last_updated = NoTime

\* C8: a cycle that failed without reaching the threshold leaves the parser's
\* cache, the list the readers see and its timestamp as they were when the cycle
\* started; and at any moment the readers see the value of the cycle's start or
\* the complete new one.
C8_FailedCycleLeavesCacheUntouched ==
    /\ (spc = "sleep" /\ fail_run > 0 /\ last_clears = 0) =>
          /\ cache = pre.cache
          /\ token_cache = pre.token_cache
          /\ last_update = pre.last_update
    /\ \/ token_cache = pre.token_cache /\ last_update = pre.last_update
       \/ token_cache = pending.tokens /\ token_cache # <<>> /\ last_update = clock

\* C9: the task ends only after cancel() was called, it never ends in an
\* exception of a cycle, and unless it is cancelled the loop goes from cycle to
\* cycle, whatever their outcomes, up to the sleep after the last cycle modelled.
C9_OnlyCancellationEndsTheLoop ==
    /\ [](spc # "crashed" /\ (spc \in Ended => cancelled_in # None))
    /\ <>((spc = "sleep" /\ ncycles = MaxCycles) \/ cancelled_in # None)

\* A cycle ended in an exception, which was the third failure in a row and
\* cleared the cache, and the loop is in its sleep with a cycle to come.
C9_Witness ==
    /\ spc = "sleep"
    /\ pending.kind = "raise"
    /\ last_clears = 1
    /\ ncycles < MaxCycles
    /\ lpc = "running"

\* C10: once cancel() was called during the sleep, the task does nothing but
\* end: no fetch, no cache write, no file write, no broadcast, no time passes;
\* lifespan never ends in an error, and the shutdown completes.
C10_CancelDuringSleepEndsTheLoop ==
    /\ [][cancelled_in = "sleep" =>
            /\ spc' \in {"sleep", "cancelled"}
            /\ UNCHANGED <<token_cache, last_update, cache, cache_file, data_file,
                           market_data, pending, ncycles, posts, last_sent_data,
                           bpc, clock>>]_vars
    /\ [](lpc # "error")
    /\ (cancelled_in = "sleep") ~> (spc = "cancelled" /\ lpc = "stopped")

\* The task was cancelled in the sleep after its second cycle and lifespan has
\* finished its shutdown.
C10_Witness ==
    /\ cancelled_in = "sleep"
    /\ spc = "cancelled"
    /\ lpc = "stopped"
    /\ ncycles >= 2

\* C11: when the task was cancelled during a broadcast and has ended, every
\* delivery of that broadcast whose POST had left has run to completion: none
\* was cancelled in flight or between two attempts.
C11_InFlightDeliveriesComplete ==
    (cancelled_in = "broadcast" /\ spc \in Ended) =>
        \A u \in targets : posts[u] >= 1 => dpc[u] = "done"

(***************************************************************************)
(* Claims about the subscriber registry and the broadcast's deliveries     *)
(***************************************************************************)
\* C12: a register call succeeds exactly if the url is not a member, and makes it
\* one; an unregister call succeeds exactly if the url is a member, and removes
\* it; a failing call (the second of two equal calls) leaves the set unchanged.
C12_RegisterUnregister ==
    [][ /\ \A url \in Urls : register_webhook(url) =>
              /\ api_ret'.op = "register"
              /\ api_ret'.ok = (url \notin registered_webhooks)
              /\ registered_webhooks' = registered_webhooks \cup {url}
              /\ ~api_ret'.ok => registered_webhooks' = registered_webhooks
        /\ \A url \in Urls : unregister_webhook(url) =>
              /\ api_ret'.op = "unregister"
              /\ api_ret'.ok = (url \in registered_webhooks)
              /\ registered_webhooks' = registered_webhooks \ {url}
              /\ ~api_ret'.ok => registered_webhooks' = registered_webhooks ]_vars

\* A register call has failed on a set of one url: it was that url's second.
C12_Witness ==
    /\ api_ret = [op |-> "register", ok |-> FALSE]
    /\ Cardinality(registered_webhooks) = 1

\* C13: a broadcast_update call on an empty subscriber set returns {sent: 0,
\* failed: 0} at once, starts no delivery and leaves last_sent_data and the
\* subscriber set as they were; no POST is sent on behalf of a broadcast that
\* returned for an empty set.
C13_EmptyBroadcastIsNoOp ==
    /\ [][ (registered_webhooks = {} /\
            \E tokens \in SampleSnapshots : BroadcastBegin(tokens, UPDATE_INTERVAL)) =>
              /\ bret' = [kind |-> "return", sent |-> 0, failed |-> 0]
              /\ bpc' = "idle"
              /\ \A u \in Urls : posts'[u] = 0 /\ dpc'[u] = "none"
              /\ UNCHANGED <<last_sent_data, registered_webhooks>> ]_vars
    /\ []((bpc = "idle" /\ targets = {}) => \A u \in Urls : posts[u] = 0)

\* After a broadcast that delivered, the last subscriber left and a broadcast on
\* the empty set has returned: last_sent_data is still that of the earlier one.
C13_Witness ==
    /\ registered_webhooks = {}
    /\ targets = {}
    /\ bpc = "idle"
    /\ bret = [kind |-> "return", sent |-> 0, failed |-> 0]
    /\ last_sent_data # EmptyDict

\* C14: in a broadcast, what is recorded for a subscriber is decided by that
\* subscriber's own answers alone (and so is the same for two subscribers that
\* answer alike), and a delivery that is not complete can always take its next
\* step, whatever state the deliveries to the other subscribers are in.
C14_DeliveriesAreIndependent ==
    /\ \A u \in targets :
          dpc[u] = "done" => ((dresult[u] = "True") = ~Failing(script[u][posts[u]]))
    /\ BroadcastReturned =>
          \A u, v \in targets : script[u] = script[v] => dresult[u] = dresult[v]
    /\ bpc = "gather" =>
          \A u \in targets :
              dpc[u] # "done" => ENABLED (PostAttempt(u) \/ Response(u))

\* A delivery is complete and counted as sent while the POST to a subscriber
\* that will time out is still in flight and a third delivery has not started.
C14_Witness ==
    /\ bpc = "gather"
    /\ Cardinality(targets) = 3
    /\ \E u, v, w \in targets :
          /\ dpc[u] = "inflight" /\ script[u][1] = Timeout
          /\ dpc[v] = "done" /\ dresult[v] = "True"
          /\ dpc[w] = "none"

(***************************************************************************)
(* Claims about make_request_with_retry and the address cascade            *)
(***************************************************************************)
\* Every request of the current make_request_with_retry call was answered 429.
AllRateLimited == \A i \in 1..Len(statuses) : statuses[i] = Status(429)

\* C15 as stated: a call sends at most max_retries requests in total, and a call
\* whose every request was answered 429 returns None.
C15_AtMostMaxRetriesRequests ==
    /\ Len(statuses) <= max_retries
    /\ (rpc = "returned" /\ AllRateLimited) => r_result = ReqNone

\* C15 amended: a call sends at most max_retries + 1 requests in total, the first
\* one and max_retries retries; a call whose every request was answered 429 has
\* sent exactly that many when it returns, slept 1, 5 and 15 seconds between
\* them, and returns None.
C15_AtMostMaxRetriesPlusOneRequests ==
    /\ Len(statuses) <= max_retries + 1
    /\ Len(slept) <= max_retries
    /\ (rpc = "returned" /\ AllRateLimited) =>
          /\ Len(statuses) = max_retries + 1
          /\ slept = retry_delays
          /\ r_result = ReqNone

\* The search by symbol was answered 429 four times and the call has returned None.
C15_Witness ==
    /\ cpc = "by_symbol"
    /\ rpc = "returned"
    /\ Len(statuses) = max_retries + 1
    /\ AllRateLimited
    /\ r_result = ReqNone

\* A status that is neither 200 nor 429.
HardFailure(o) == o.kind = "status" /\ o.code \notin {200, 429}

\* C16: an answer with status 401, or any status other than 200 and 429, is the
\* last answer of its make_request_with_retry call, whatever retry_count is: the
\* call has returned, with a result no search function takes items from; and the
\* search that got such a result makes _find_mint_address return no address.
C16_HardFailureEndsTheCall ==
    /\ [](\A i \in 1..Len(statuses) :
            HardFailure(statuses[i]) =>
                /\ i = Len(statuses)
                /\ rpc = "returned"
                /\ r_result \in {ReqNone, ReqError}
                /\ ~Usable(r_result))
    /\ [][ (rpc = "returned" /\ ~Usable(r_result)) =>
              /\ c_result'.kind # "raise"
              /\ c_result'.kind = "return" => c_result'.value = None
              /\ nrequests' = nrequests ]_vars

\* After one 429 and its backoff the provider answered 401: the call has
\* returned the error dict with two retries left.
C16_Witness ==
    /\ rpc = "returned"
    /\ retry_count = 1
    /\ statuses = << Status(429), Status(401) >>
    /\ r_result = ReqError

\* C17: a call for a symbol of known_token_addresses returns the table's address
\* at its first step, without an acquire() and without a request.
C17_KnownSymbolNeedsNoNetwork ==
    c_symbol \in DOMAIN known_token_addresses =>
        /\ nacquires = 0
        /\ nrequests = 0
        /\ cpc \in {"start", "done"}
        /\ cpc = "done" =>
              /\ c_result.kind = "return"
              /\ c_result.value = known_token_addresses[c_symbol]

\* With a credential set, the call for JUP has returned the table's address.
C17_Witness ==
    /\ c_key
    /\ c_symbol = <<"J", "U", "P">>
    /\ cpc = "done"
    /\ c_result = Return("JUPyiwrYJFskUPiHa7hkeR8VUtAeFoSYbKedZNsDvCN")
    /\ nrequests = 0

\* C18: without a credential the cascade never acquires the limiter and never
\* sends a request, and a call for a symbol that is not in the table returns
\* None.
C18_NoCredentialNoNetwork ==
    ~c_key =>
        /\ nacquires = 0
        /\ nrequests = 0
        /\ rpc = "idle"
        /\ (cpc = "done" /\ c_symbol \notin DOMAIN known_token_addresses) =>
              /\ c_result.kind = "return"
              /\ c_result.value = None

\* Without a credential the call for FOO went through its steps and returned None.
C18_Witness ==
    /\ ~c_key
    /\ c_symbol = tFOO
    /\ c_name = tFoo
    /\ cpc = "done"
    /\ c_result = Return(None)
    /\ nacquires = 0

\* C19: _find_mint_address never raises, whatever the provider answers.
C19_CascadeNeverRaises == c_result.kind # "raise"

(***************************************************************************)
(* Claims about the snapshot                                               *)
(***************************************************************************)
\* get_top_tokens has parsed the provider's entries and is about to write its cache.
SnapshotParsed == spc = "closing" /\ pending.kind = "tokens" /\ pending.write

\* C20 as stated: every entry the market-data provider returned is in the
\* snapshot, at its rank.
C20_EveryEntryInSnapshot ==
    SnapshotParsed =>
        /\ Len(pending.tokens) = Len(market_data)
        /\ \A i \in 1..Len(pending.tokens) : pending.tokens[i].rank = i

\* C20 amended: every entry whose name and symbol are strings is in the snapshot,
\* with its rank, its name and its symbol in upper case, whether or not a mint
\* address was found for it.
C20_EveryValidEntryInSnapshot ==
    SnapshotParsed =>
        \A i \in 1..Len(market_data) :
            (market_data[i].name # NoText /\ market_data[i].symbol # NoText) =>
                \E j \in 1..Len(pending.tokens) :
                    /\ pending.tokens[j].rank = i
                    /\ pending.tokens[j].name = market_data[i].name
                    /\ pending.tokens[j].symbol = upper(market_data[i].symbol)

\* Both entries of the provider's answer are in the snapshot, the second
\* without a mint address.
C20_Witness ==
    /\ SnapshotParsed
    /\ Len(market_data) = 2
    /\ Len(pending.tokens) = 2
    /\ pending.tokens[2].symbol = tFOO
    /\ pending.tokens[2].mint_address = None

(***************************************************************************)
(* Claims about get_top_tokens and the parser's cache                      *)
(***************************************************************************)
\* C21: whatever count is requested and whatever the cache holds,
\* get_top_tokens(limit = count) returns at most count tokens.
C21_AtMostCountTokens ==
    g_ret.kind = "tokens" => Len(g_ret.tokens) <= g_args.limit

\* C22: the ranks of the snapshot get_top_tokens returns are 1, 2, ..., k in
\* this order, k being the number of tokens returned.
C22_RanksContiguous ==
    g_ret.kind = "tokens" =>
        \A i \in 1..Len(g_ret.tokens) : g_ret.tokens[i].rank = i

\* A call that may be served from the cache: get_top_tokens(limit), and whether
\* it was, that is, whether _is_cache_valid() returned true.
CacheCall == g_args # NoValue /\ g_args.use_cache /\ ~g_args.force_refresh
ServedFromCache == g_pc = "idle" /\ g_provider_calls = 0 /\ g_ret.kind = "tokens"

\* C23: _is_cache_valid() is true if and only if the age of the cache, now minus
\* its timestamp, is less than the TTL: an entry of age TTL or more and the
\* empty entry with timestamp 0 are not valid.
C23_ValidIffYoungerThanTTL ==
    CacheCall => (ServedFromCache <=> g_pre < cache_ttl)

\* A call finds the cache at the age of exactly the TTL and asks the provider.
C23_Witness ==
    /\ CacheCall
    /\ g_pre = cache_ttl
    /\ g_pc = "fetching"

\* C24: once a fetch has written a snapshot to the cache, a get_top_tokens call
\* without force_refresh made before the TTL has elapsed returns that very
\* snapshot and sends no request to the provider; made when the TTL has
\* elapsed, it is not served from the cache.
C24_CacheRoundTrip ==
    (CacheCall /\ g_written # NoValue) =>
        /\ g_pre < cache_ttl =>
               ServedFromCache /\ g_ret.tokens = g_written.tokens
        /\ g_pre >= cache_ttl => ~ServedFromCache

\* A snapshot of two tokens is read back one second before the TTL elapses.
C24_Witness ==
    /\ CacheCall
    /\ g_written # NoValue
    /\ g_pre = cache_ttl - 1
    /\ ServedFromCache
    /\ Len(g_ret.tokens) = 2
    /\ g_ret.tokens = g_written.tokens

\* The last operation on the parser was a get_top_tokens call that wrote the
\* cache while the disk refused the write.
SaveFailed == g_op.name = "get_top_tokens" /\ g_op.disk # "ok"

\* C25: when the cache cannot be persisted, get_top_tokens still returns the new
\* snapshot, parser.cache holds the new snapshot with its timestamp, and no
\* exception reaches the caller.
C25_SaveFailureDoesNotFailTheWrite ==
    SaveFailed =>
        /\ ~g_op.raised
        /\ g_ret.kind = "tokens"
        /\ g_ret.tokens = g_written.tokens
        /\ cache.tokens = g_written.tokens
        /\ cache.timestamp = g_written.at

\* A snapshot is returned and cached while the file was left unusable.
C25_Witness ==
    /\ SaveFailed
    /\ g_ret.kind = "tokens"
    /\ Len(g_ret.tokens) = 2
    /\ cache.tokens = g_ret.tokens
    /\ cache_file = Corrupt

\* C26: after clear_cache() the cache in memory is the empty entry with
\* timestamp 0, hence not valid; the persisted copy is gone unless its deletion
\* failed; and clear_cache() did not raise, whether or not the deletion failed.
C26_ClearCacheResets ==
    g_op.name = "clear_cache" =>
        /\ cache = EmptyCache
        /\ cache.timestamp = 0
        /\ clock - cache.timestamp >= cache_ttl
        /\ ~g_op.raised
        /\ g_op.disk = "ok" => cache_file = NoFile

\* The deletion of an existing file failed: the file is still there, the cache
\* in memory is empty.
C26_Witness ==
    /\ g_op.name = "clear_cache"
    /\ g_op.disk # "ok"
    /\ cache_file # NoFile
    /\ cache = EmptyCache

\* The file exists and could be unpickled when the parser was constructed.
FileWasReadable == cache_file \notin {NoFile, Corrupt} /\ g_op.disk = "ok"

\* C27: a parser is constructed with the persisted entry if the file exists,
\* can be read and holds an entry younger than the TTL, and with the empty entry
\* with timestamp 0 in every other case; the construction never raises.
C27_LoadRestoresOnlyFreshEntry ==
    g_op.name = "construct" =>
        /\ ~g_op.raised
        /\ IF FileWasReadable /\ g_pre < cache_ttl
           THEN cache = cache_file
           ELSE cache = EmptyCache

\* An entry of two tokens is restored one second before it expires.
C27_Witness ==
    /\ g_op.name = "construct"
    /\ FileWasReadable
    /\ g_pre = cache_ttl - 1
    /\ cache = cache_file
    /\ Len(cache.tokens) = 2

\* C28: on every failure, a network error, a status other than 200 or a body
\* that is not a well-formed list of market entries, get_solana_tokens returns
\* the empty result.
C28_EmptyResultOnAnyFailure ==
    (g_response # NoValue /\ ~WellFormed(g_response)) => g_market = EmptyResult

(***************************************************************************)
(* Claims about the holder statistics                                      *)
(***************************************************************************)
\* C29: for a non-empty list of balances, total_supply is their sum,
\* largest_balance their maximum, total_holders their number, and the percentage
\* of each holder is balance / total_supply * 100, or 0 when total_supply is 0.
C29_HolderStatistics ==
    (h_result # NoValue /\ h_items # <<>>) =>
        LET stats == h_result.stats
            n == Len(h_items)
        IN  /\ stats.total_holders = n
            /\ stats.total_supply = Sum(h_items, 1..n)
            /\ \A i \in 1..n : h_items[i] <= stats.largest_balance
            /\ \E i \in 1..n : h_items[i] = stats.largest_balance
            /\ Len(h_result.holders) = n
            /\ \A i \in 1..n :
                   LET p == h_result.holders[i].percentage
                   IN  IF stats.total_supply = 0
                       THEN p.num = 0
                       ELSE p.num * stats.total_supply = h_items[i] * 100 * p.den

\* [100, 50, 50] gives 200, 100 and the percentages 50, 25 and 25.
C29_Witness ==
    /\ h_items = <<100, 50, 50>>
    /\ h_result # NoValue
    /\ h_result.stats.total_supply = 200
    /\ h_result.stats.largest_balance = 100
    /\ h_result.stats.total_holders = 3
    /\ h_result.holders[1].percentage = Ratio(50, 1)
    /\ h_result.holders[2].percentage = Ratio(25, 1)
    /\ h_result.holders[3].percentage = Ratio(25, 1)

(***************************************************************************)
(* Claims about the order of cache write and broadcast                     *)
(***************************************************************************)
\* A delivery of the cycle's broadcast has started and has not completed.
DeliveriesInFlight == \E u \in targets : dpc[u] \in {"inflight", "ready"}

\* C30: while a delivery of a cycle's broadcast is in flight the task is still
\* in that broadcast, the cache the readers see and the parser's cache hold the
\* cycle's snapshot, the payload carries exactly that snapshot, and no step
\* fetches, or changes a cache or a file, or starts the next cycle.
C30_CacheWrittenBeforeBroadcast ==
    /\ [](DeliveriesInFlight =>
            /\ spc = "broadcast"
            /\ token_cache # <<>>
            /\ token_cache = pending.tokens
            /\ cache.tokens = token_cache
            /\ last_update = clock
            /\ payload_dict.tokens = token_cache
            /\ payload_dict.total_tokens = Len(token_cache))
    /\ [][DeliveriesInFlight =>
            UNCHANGED <<token_cache, last_update, cache, cache_file, data_file,
                        market_data, pending, ncycles, payload_dict, clock>>]_vars

\* In the second cycle or later, a POST carrying the two tokens just written is
\* in flight.
C30_Witness ==
    /\ spc = "broadcast"
    /\ ncycles >= 2
    /\ dpc["https://a"] = "inflight"
    /\ Len(token_cache) = 2
    /\ payload_dict.tokens = token_cache
    /\ token_cache # pre.token_cache

(***************************************************************************)
(* Claims about the outcome of a cycle                                     *)
(***************************************************************************)
\* The cycle that has just ended returned an empty token list.
EmptyCycleOver == spc = "sleep" /\ pending.kind = "tokens" /\ pending.tokens = <<>>

\* C31: a cycle whose result is empty counts one failure and, unless it is the
\* one that reaches the threshold, leaves the parser's cache and its timestamp
\* as they were; and a cache that is valid under the TTL never holds an empty
\* snapshot.
C31_OnlyNonEmptyResultReplacesCache ==
    /\ EmptyCycleOver =>
          /\ fail_run > 0
          /\ consecutive_errors = fail_run % max_consecutive_errors
          /\ last_clears = 0 => cache = pre.cache
    /\ clock - cache.timestamp < cache_ttl => cache.tokens # <<>>

\* The cycle in progress or just ended raised in its fetch or its address
\* resolution; it parsed tokens but the disk refused to store them.
FetchRaised == spc = "sleep" /\ pending.kind = "raise"
PersistFailed ==
    /\ spc \in {"broadcast", "sleep"}
    /\ pending.kind = "tokens"
    /\ pending.tokens # <<>>
    /\ data_file = Corrupt

FailureCounted ==
    fail_run > 0 /\ consecutive_errors = fail_run % max_consecutive_errors

C33_OneSleepBetweenCycles ==
    /\ [][(spc' = "fetching" /\ spc # "fetching") =>
            /\ spc = "sleep"
            /\ clock' = clock + UPDATE_INTERVAL
            /\ ncycles' = ncycles + 1]_vars
    /\ [][(spc \in {"fetching", "resolving", "closing", "broadcast"} /\ spc' # spc) =>
            spc' \in {"resolving", "closing", "broadcast", "sleep"} \cup Ended]_vars
    /\ [][spc = "sleep" => (clock' = clock \/ spc' = "fetching")]_vars
    /\ [](clock = StartTime + (ncycles - 1) * UPDATE_INTERVAL)

\* The third cycle is fetching after two failed cycles, two intervals after the
\* start.
C33_Witness ==
    /\ spc = "fetching"
    /\ ncycles = 3
    /\ fail_run = 2
    /\ clock = StartTime + 2 * UPDATE_INTERVAL

(***************************************************************************)
(* Claims about the order of the cascade and its last step                 *)
(***************************************************************************)
\* The steps of _find_mint_address in the order of the code.
StepRank(step) ==
    CASE step = "start" -> 0
      [] step = "by_symbol" -> 1
      [] step = "by_name" -> 2
      [] step = "popular" -> 3
      [] OTHER -> 4

\* _find_mint_address has returned an address.
Hit == c_result.kind = "return" /\ c_result.value # None

\* C34: the steps are entered in the order table, symbol search, name search,
\* popular scan; a search that yields an address ends the call with that
\* address; a step is only in progress while no earlier one has yielded one;
\* and once an address is returned no step follows and no request is sent.
C34_StepsInOrderFirstHitWins ==
    /\ [][StepRank(cpc') >= StepRank(cpc)]_vars
    /\ [][(cpc = "start" /\ c_symbol \in DOMAIN known_token_addresses) =>
            (cpc' = "done" /\ c_result' = Return(known_token_addresses[c_symbol]))]_vars
    /\ [][(rpc = "returned" /\ cpc = "by_symbol"
             /\ search_birdeye_by_symbol(c_symbol, c_key, r_result) # None) =>
            /\ cpc' = "done"
            /\ c_result' = Return(search_birdeye_by_symbol(c_symbol, c_key, r_result))]_vars
    /\ [][(rpc = "returned" /\ cpc = "by_name"
             /\ search_birdeye_by_name(c_name, c_key, r_result) # None) =>
            /\ cpc' = "done"
            /\ c_result' = Return(search_birdeye_by_name(c_name, c_key, r_result))]_vars
    /\ [](cpc \in NetworkSteps \cup {"start"} => c_result = NoValue)
    /\ [][Hit => (cpc = "done" /\ UNCHANGED <<cpc, c_result, nrequests, nacquires>>)]_vars

\* The name search, reached after a symbol search that found nothing, has
\* returned an address with the call's second request.
C34_Witness ==
    /\ Hit
    /\ cpc = "done"
    /\ c_symbol = tBAR
    /\ c_name = tFoo
    /\ nrequests = 2
    /\ c_result.value = "FooMint"

\* The popular-token rule with every comparison made without regard to case.
accepts_ignoring_case(token, symbol, name) ==
    \/ upper(token.symbol) = upper(symbol)
    \/ contains(upper(token.name), upper(symbol))
    \/ contains(upper(name), upper(token.symbol))

\* The address of the first entry from i on that the rule accepts, or None.
RECURSIVE first_accepted(_, _, _, _)
first_accepted(popular, i, symbol, name) ==
    IF i > Len(popular) THEN None
    ELSE IF accepts_ignoring_case(popular[i], symbol, name) THEN popular[i].address
    ELSE first_accepted(popular, i + 1, symbol, name)

\* Every text the popular scan reads is a string.
AllTextsPresent(popular) ==
    /\ c_symbol # NoText
    /\ c_name # NoText
    /\ \A i \in 1..Len(popular) : popular[i].symbol # NoText /\ popular[i].name # NoText

\* C35: when the popular scan ends the call (all texts being strings), the
\* call returns the address of the first entry, in the order of the answer,
\* whose symbol equals the target symbol, or whose name contains the target
\* symbol, or whose symbol appears inside the target name, compared without
\* regard to case; and None when no entry does.
C35_PopularRuleIgnoresCase ==
    [][(cpc = "popular" /\ rpc = "returned" /\ cpc' = "done"
          /\ AllTextsPresent(get_popular_tokens(c_key, r_result))) =>
        c_result' = Return(first_accepted(get_popular_tokens(c_key, r_result), 1,
                                          c_symbol, c_name))]_vars

(***************************************************************************)
(* Every request to the BirdEye provider                                   *)
(***************************************************************************)
\* DataParser._get_token_metadata(mint_address), with a key and an address:
\* session.get(".../v3/token/meta") is sent at once; the method does not call
\* rate_limiter.acquire().
GetTokenMetadata(t) ==
    /\ tpc[t] = "idle"
    /\ Len(provider_log) < MaxProviderRequests
    /\ provider_log' = Append(provider_log, clock)
    /\ UNCHANGED <<requests, lock, parser_of, tpc, wake_at, recorded, clock>>
    /\ UNCHANGED <<bvars, svars, cvars>>

\* ---- The provider as DataParser can call it: the lookups of the refresh task
\* and the holder requests, each through acquire(), and metadata lookups.
NextRequests ==
    \/ RefreshLookup
    \/ \E t \in Tasks \ {"t0"} : GetTokenHolders(t)
    \/ \E t \in Tasks : GetTokenMetadata(t)
    \/ \E t \in Tasks : EnterLock(t)
    \/ \E t \in Tasks : WakeUp(t)
    \/ Tick

SpecRequests == InitProvider /\ [][NextRequests]_vars

\* C36: every request sent to the BirdEye provider goes out as the last step
\* of an acquire() of its own, which records the request's time in the window
\* of the caller's limiter.
C36_EveryRequestAcquiresFirst ==
    [][provider_log' # provider_log =>
        \E t \in Tasks :
            /\ tpc[t] \in {"lock", "sleep"}
            /\ tpc'[t] = "idle"
            /\ recorded'[parser_of[t]] = Append(recorded[parser_of[t]], clock)
            /\ requests'[parser_of[t]][Len(requests'[parser_of[t]])] = clock]_vars

\* The requests of the cascade: each session.get follows an acquire() of its own.
C36_CascadeRequestsAcquireFirst ==
    nacquires = nrequests + (IF rpc = "get" THEN 1 ELSE 0)

(***************************************************************************)
(* Claims about refresh_cache                                              *)
(***************************************************************************)
\* A refresh_cache call is over and its fetch gave no tokens or raised.
RefreshFailed ==
    /\ g_pc = "idle"
    /\ g_args # NoValue
    /\ g_args.via = "refresh_cache"
    /\ g_ret.kind # "none"
    /\ (g_ret.kind = "raise" \/ g_ret.tokens = <<>>)

\* C37: when the fetch of a refresh_cache call returned no data or failed, the
\* cache still holds the snapshot that the last fetch before the refresh had
\* written into it.
C37_FailedRefreshKeepsSnapshot ==
    (RefreshFailed /\ g_written # NoValue) => cache.tokens = g_written.tokens

(***************************************************************************)
(* Claims about a broadcast and concurrent (un)registrations               *)
(***************************************************************************)
\* C38: a broadcast targets the subscribers registered when it starts; when it
\* returns, sent + failed is the number of those subscribers and exactly they
\* have been sent POSTs, whatever was registered or unregistered while the
\* deliveries were in flight.
C38_CountsCoverSubscribersAtStart ==
    /\ [][(bpc = "idle" /\ bpc' = "gather") => targets' = registered_webhooks]_vars
    /\ [][bpc = "gather" => targets' = targets]_vars
    /\ [](BroadcastReturned =>
            /\ bret.kind = "return"
            /\ bret.sent + bret.failed = Cardinality(targets)
            /\ {u \in Urls : posts[u] > 0} = targets)

\* A broadcast to two subscribers has returned; while it ran one of them was
\* unregistered and a third url was registered.
C38_Witness ==
    /\ BroadcastReturned
    /\ Cardinality(targets) = 2
    /\ bret.sent + bret.failed = 2
    /\ targets \ registered_webhooks # {}
    /\ registered_webhooks \ targets # {}

(***************************************************************************)
(* The addresses of one snapshot                                           *)
(***************************************************************************)
\* The longest answer of CoinGecko that is resolved.
MaxEntries == 2

\* Entries as CoinGecko may list them: two tokens may share a symbol.
ResolveEntries ==
    { Entry(s, n, 3, 1) : s \in {tbar, tfoo}, n \in {tFoo_Token, tBar, tFoo} }

RECURSIVE ListsUpTo(_, _)
ListsUpTo(S, n) ==
    IF n = 0 THEN { <<>> }
    ELSE LET shorter == ListsUpTo(S, n - 1)
         IN  shorter \cup { Append(l, e) : l \in shorter, e \in S }

\* BirdEye without a key; with a key, both searches failing and one popular
\* token; with a key and a name search that finds a token.
ResolveEnvs ==
    { BirdEye(FALSE, ReqNone, ReqNone, ReqNone),
      BirdEye(TRUE, ReqNone, ReqNone, ReqBody(TRUE, << Item(tFOO, tFoo, "FooMint") >>)),
      BirdEye(TRUE, ReqNone, ReqBody(TRUE, << Item(tBAR, tBar, "BarMint") >>), ReqNone) }

\* get_top_tokens after a non-empty answer md of get_solana_tokens: the
\* addresses are resolved into mint_mapping, then every entry is parsed with it.
ResolveAndParse ==
    /\ g_pc = "fetching"
    /\ g_env # NoValue
    /\ g_pc' = "idle"
    /\ g_ret' = resolve_and_parse(g_market.entries, g_env)
    /\ UNCHANGED <<g_args, g_pre, g_response, g_market, g_provider_calls, g_written,
                   g_op, nelapses, h_items, h_result, g_env>>
    /\ UNCHANGED <<c_symbol, c_name, c_key, cpc, rpc, retry_count, statuses, slept,
                   r_result, c_result, nacquires, nrequests>>
    /\ UNCHANGED <<requests, lock, parser_of, tpc, wake_at, recorded, provider_log>>
    /\ UNCHANGED <<bvars, svars, clock>>

\* A get_top_tokens call that got the answer md and is about to resolve it
\* against be.
RInit(md, be) ==
    /\ g_pc = "fetching"
    /\ g_args = [limit |-> 100, use_cache |-> TRUE, force_refresh |-> TRUE,
                 via |-> "get_top_tokens"]
    /\ g_pre = NoTime
    /\ g_response = JsonList(md)
    /\ g_market = Data("list", md)
    /\ g_ret = NoCall
    /\ g_provider_calls = 1
    /\ g_written = NoValue
    /\ g_op = NoOp
    /\ nelapses = 0
    /\ g_env = be

\* ---- One address resolution, for every short answer of CoinGecko and every
\* BirdEye.
InitResolve ==
    /\ BInit
    /\ LInit /\ parser_of = AllOnOneParser
    /\ CInit(tSOL, tSolana, FALSE)
    /\ HInit(<<>>)
    /\ SInit(<<>>, StartTime)
    /\ clock = StartTime
    /\ \E md \in ListsUpTo(ResolveEntries, MaxEntries) \ { <<>> }, be \in ResolveEnvs :
          RInit(md, be)

NextResolve == ResolveAndParse

SpecResolve == InitResolve /\ [][NextResolve]_vars

\* Token i of the result carries what _find_mint_address returns for the
\* token's own symbol and name.
OwnAddress(tokens, i, be) ==
    LET own == find_mint_address(tokens[i].symbol, tokens[i].name, be)
    IN  own.kind = "return" /\ tokens[i].mint_address = own.value

\* C39: every token of a resolved snapshot carries the address the cascade
\* gives for that token's own symbol and name, also when entries of the
\* answer share a symbol.
C39_EachTokenCarriesItsOwnAddress ==
    (g_env # NoValue /\ g_pc = "idle" /\ g_ret.kind = "tokens") =>
        \A i \in 1..Len(g_ret.tokens) : OwnAddress(g_ret.tokens, i, g_env)

(***************************************************************************)
(* Termination of acquire()                                                *)
(***************************************************************************)
\* ---- The limiter under the scheduling of asyncio: time advances, a
\* coroutine whose sleep is over is resumed, and asyncio.Lock wakes its waiters
\* in the order they came, so that none is overtaken for ever.
SpecLimiterFair ==
    /\ InitLimiter
    /\ [][NextLimiter]_vars
    /\ WF_vars(Tick)
    /\ \A t \in Tasks : WF_vars(WakeUp(t))
    /\ \A t \in Tasks : SF_vars(EnterLock(t))

\* A sleep of acquire() ends after the last modelled second.
SleepBeyondMaxTime == \E u \in Tasks : tpc[u] = "sleep" /\ wake_at[u] > MaxTime

\* C40: an acquire() holds the lock from its entry to its return, so that one
\* caller at a time is inside; it sleeps at most once and, when it is left,
\* has appended exactly one timestamp; and every call returns (within the
\* modelled time, unless a sleep reaches beyond it).
C40_AcquireTerminates ==
    /\ [](\A t \in Tasks : tpc[t] = "sleep" => lock[parser_of[t]] = t)
    /\ [](\A t \in Tasks : tpc[t] # "sleep" => lock[parser_of[t]] # t)
    /\ [][\A t \in Tasks :
            (tpc[t] = "sleep" /\ tpc'[t] # "sleep") => tpc'[t] = "idle"]_vars
    /\ [][\A t \in Tasks :
            (tpc[t] # "idle" /\ tpc'[t] = "idle") =>
                /\ recorded'[parser_of[t]] = Append(recorded[parser_of[t]], clock)
                /\ lock'[parser_of[t]] = None]_vars
    /\ [][(\A t \in Tasks : ~(tpc[t] # "idle" /\ tpc'[t] = "idle")) =>
            recorded' = recorded]_vars
    /\ \A t \in Tasks :
          (tpc[t] # "idle") ~> (tpc[t] = "idle" \/ SleepBeyondMaxTime)

\* A caller that found the window full, slept with the lock held while another
\* one queued for it, and has returned with its timestamp recorded.
C40_Witness ==
    /\ tpc["t0"] = "idle"
    /\ tpc["t1"] = "lock"
    /\ lock["p0"] = None
    /\ Len(recorded["p0"]) = max_requests + 1
    /\ recorded["p0"][max_requests + 1] > recorded["p0"][max_requests]
    /\ wake_at["t0"] = 0
    /\ clock < MaxTime
====
